---- MODULE Spec2Model ----
(***************************************************************************)
(* A model of the MCP router's core: the tool-preference store with the    *)
(* Tool Filter Service and its cache, the Server Manager's lifecycle of    *)
(* upstream connections, and the OAuth token manager's refresh path.       *)
(* Each subsystem has its own next-state relation and specification; the   *)
(* variables of the other subsystems stay unchanged under it.              *)
(***************************************************************************)
EXTENDS Integers, Sequences, FiniteSets, TLC

VARIABLES
  rows,      \* server_tools table: a set of preference rows
  cache,     \* ToolFilterService.toolPreferencesCache, as entries [key, toolName, row]
  out,       \* outcome of the most recent operation of the tool subsystem
  nOps,      \* number of preference reads and writes so far (bounded)
  tokens,    \* the token store: a set of [id, clientId, serverIds]
  servers,   \* ServerManager.servers: id -> status of the server object ("absent": no entry)
  dbServers, \* ids of the server records in the database
  clients,   \* ServerManager.clients, the connection pool: id -> client (0: no entry)
  live,      \* the clients that are connected and not closed
  starts,    \* startServer calls suspended at await connectToServerWithResult
  nStarts,   \* number of connection attempts so far (bounded)
  seq,       \* what the requests so far give when executed one at a time, in request order
  last,      \* of each server: the request made last for it and what it found
  load,      \* loadServersFromDatabase: the records read, the loop's position and state
  stored,    \* the access token of the server's token row (tokens are numbered; 0: no row)
  phase,     \* of each issued token: "fresh", "window" (expiry within the buffer), "expired"
  issued,    \* number of access tokens issued so far
  refreshPromises, \* TokenManagerService.refreshPromises entry of the server (0: none)
  ops,       \* performTokenRefresh runs in flight: [n, attempt, old]
  nRefresh,  \* number of performTokenRefresh runs started so far (bounded)
  timer,     \* tokenRefreshTimers entry of the server: the token it captured (0: none)
  calls,     \* the getAccessToken calls: caller -> [st, on, starter, old, result]
  group,     \* the getAccessToken calls that overlap with the one most recently issued
  groupWindow, \* all calls of the group were issued inside the refresh window
  httpCount, \* token-endpoint exchanges since the group began
  refreshCount, \* refresh_count of the server's token row
  revoke,    \* the revokeToken call: "idle" (none made), "await", "done"
  now,       \* Date.now(), in ms since the service was constructed
  rateLimitTracking, \* OAuthSecurityService.rateLimitTracking: key -> [count, resetTime]
  granted,   \* per key: the guarded operations begun since the key's window began
  lastCheck, \* per key: what the last checkRateLimit returned
  nAdvances, \* number of clock advances so far (bounded)
  req,       \* the request in the OAuth-aware fetch wrapper: its position and what it did
  flow,      \* OAuthFlowService: the authorization flows, the window, the callback server
  keys,      \* OAuthSecurityService / the key file / server_oauth_tokens: key, version, rows
  bk,        \* OAuthBackupService: the OAuth store, the backup file, the last outcome
  mig,       \* OAuthMigrationService: migrationState and the last result
  audit      \* OAuthSecurityService: auditLogs and oauth-audit.log

toolVars == <<rows, cache, out, nOps>>
serverVars == <<servers, dbServers, clients, live, starts, nStarts, seq>>
oauthVars == <<stored, phase, issued, refreshPromises, ops, nRefresh, timer, calls,
               group, groupWindow, httpCount, refreshCount, revoke>>
rateVars == <<now, rateLimitTracking, granted, lastCheck, nAdvances>>
\* the state of the services around the token manager
extVars == <<req, flow, keys, bk, mig, audit>>
\* what the tool subsystem leaves alone
outsideTools == <<tokens, serverVars, last, load, oauthVars, rateVars, extVars>>
\* what the Server Manager leaves alone
outsideServers == <<toolVars, load, oauthVars, rateVars, extVars>>
\* what the OAuth token manager leaves alone
outsideOAuth == <<toolVars, tokens, serverVars, last, load, rateVars, extVars>>
\* what the rate limiter leaves alone
outsideRate == <<toolVars, tokens, serverVars, last, load, oauthVars, extVars>>

\* SQL NULL / JS null
NULL == "null"
\* JS undefined (an optional field that is absent)
UNDEF == "undefined"

(***************************************************************************)
(* Bounds of the tool subsystem                                            *)
(***************************************************************************)
MaxOps == 3

ServerIds == {"A", "B"}
PrefServers == {"A"}
ToolSeq == <<"t1", "t2", "t3">>
ToolNames == {ToolSeq[i] : i \in 1..Len(ToolSeq)}
ClientIds == {"c"}
\* a clientId argument: a client, or absent (the global scope)
Scopes == ClientIds \cup {UNDEF}

\* server.name of a server id
ServerNameOf(s) == IF s = "A" THEN "srvA" ELSE "srvB"

\* position of a tool name in the collation order of tool_name
ToolIdx(t) == CHOOSE i \in 1..Len(ToolSeq) : ToolSeq[i] = t

\* JS `x || null`
OrNull(x) == IF x \in {"", NULL, UNDEF} THEN NULL ELSE x

\* JS truthiness of an optional string
Truthy(x) == x \notin {"", NULL, UNDEF}

(***************************************************************************)
(* ServerToolsRepository                                                   *)
(***************************************************************************)
Row(s, t, c, en, od, cn, cd) ==
  [serverId |-> s, toolName |-> t, clientId |-> c, enabled |-> en,
   originalDescription |-> od, customName |-> cn, customDescription |-> cd]

\* "no row": what stmt.get returns when nothing matches (JS undefined)
NoRow == Row(NULL, NULL, NULL, FALSE, NULL, NULL, NULL)

\* WHERE server_id = ? AND tool_name = ? AND client_id = ? / IS NULL
Matching(R, s, t, c) ==
  {r \in R : r.serverId = s /\ r.toolName = t /\ r.clientId = c}

\* stmt.get: the first matching row, or undefined
GetRow(R, s, t, c) ==
  IF Matching(R, s, t, c) = {} THEN NoRow ELSE CHOOSE r \in Matching(R, s, t, c) : TRUE

getServerTool(R, s, t, c) ==
  IF Truthy(c)
    THEN IF GetRow(R, s, t, c) # NoRow THEN GetRow(R, s, t, c)
         ELSE GetRow(R, s, t, NULL)
    ELSE GetRow(R, s, t, NULL)

\* ORDER BY tool_name, client_id DESC (NULL sorts last under DESC)
Before(r1, r2) ==
  \/ ToolIdx(r1.toolName) < ToolIdx(r2.toolName)
  \/ r1.toolName = r2.toolName /\ r1.clientId # NULL /\ r2.clientId = NULL

RECURSIVE SortRows(_)
SortRows(S) ==
  IF S = {} THEN <<>>
  ELSE LET m == CHOOSE r \in S : \A q \in S : ~Before(q, r)
       IN <<m>> \o SortRows(S \ {m})

\* Map.set(tool.toolName, tool) on an insertion-ordered map kept as a sequence
MapSet(m, row) ==
  IF \E i \in 1..Len(m) : m[i].toolName = row.toolName
    THEN [i \in 1..Len(m) |-> IF m[i].toolName = row.toolName THEN row ELSE m[i]]
    ELSE Append(m, row)

MapHas(m, t) == \E i \in 1..Len(m) : m[i].toolName = t

MapGet(m, t) ==
  IF MapHas(m, t) THEN m[CHOOSE i \in 1..Len(m) : m[i].toolName = t] ELSE NoRow

RECURSIVE Dedupe(_, _)
Dedupe(sorted, m) ==
  IF sorted = <<>> THEN m
  ELSE LET tool == Head(sorted)
       IN Dedupe(Tail(sorted),
                 IF ~MapHas(m, tool.toolName) \/ Truthy(tool.clientId)
                   THEN MapSet(m, tool) ELSE m)

getServerTools(R, s, c) ==
  IF Truthy(c)
    THEN Dedupe(SortRows({r \in R : r.serverId = s /\ (r.clientId = NULL \/ r.clientId = c)}),
                <<>>)
    ELSE SortRows({r \in R : r.serverId = s /\ r.clientId = NULL})

\* UPDATE server_tools SET enabled, original_description = COALESCE(?, old),
\* custom_name, custom_description WHERE server_id, tool_name, client_id (= ? / IS NULL)
UpdateStmt(R, s, t, c, p) ==
  {IF r.serverId = s /\ r.toolName = t /\ r.clientId = (IF Truthy(c) THEN c ELSE NULL)
     THEN Row(s, t, r.clientId, p.enabled,
              IF OrNull(p.originalDescription) # NULL
                THEN OrNull(p.originalDescription) ELSE r.originalDescription,
              OrNull(p.customName), OrNull(p.customDescription))
     ELSE r : r \in R}

InsertStmt(R, s, t, c, p) ==
  R \cup {Row(s, t, OrNull(c), p.enabled, OrNull(p.originalDescription),
              OrNull(p.customName), OrNull(p.customDescription))}

upsertToolPreference(R, s, p) ==
  IF getServerTool(R, s, p.toolName, p.clientId) # NoRow
    THEN UpdateStmt(R, s, p.toolName, p.clientId, p)
    ELSE InsertStmt(R, s, p.toolName, p.clientId, p)

\* the repository's bulk update: the preferences whose clientId equals the
\* clientId argument, applied in order inside one transaction
RECURSIVE BulkApply(_, _, _, _)
BulkApply(R, s, prefs, c) ==
  IF prefs = <<>> THEN R
  ELSE LET pref == Head(prefs)
           R1 == IF pref.clientId # c THEN R
                 ELSE IF getServerTool(R, s, pref.toolName, c) # NoRow
                        THEN UpdateStmt(R, s, pref.toolName, c, pref)
                        ELSE InsertStmt(R, s, pref.toolName, c, pref)
       IN BulkApply(R1, s, Tail(prefs), c)

repoBulkUpdateToolPreferences(R, s, prefs, c) == BulkApply(R, s, prefs, c)

deleteServerToolPreferences(R, s) == {r \in R : r.serverId # s}

deleteToolPreference(R, s, t) == {r \in R : ~(r.serverId = s /\ r.toolName = t)}

repoSetAllEnabled(R, s, en) ==
  {IF r.serverId = s THEN [r EXCEPT !.enabled = en] ELSE r : r \in R}

(***************************************************************************)
(* ToolFilterService                                                       *)
(***************************************************************************)
\* `${serverId}:${clientId || "global"}`
CacheKey(s, c) == <<s, IF Truthy(c) THEN c ELSE "global">>

\* the bare serverId, as passed to toolPreferencesCache.delete(serverId)
RawKey(s) == <<s>>

CacheHas(C, key, t) == \E e \in C : e.key = key /\ e.toolName = t

CacheGet(C, key, t) == (CHOOSE e \in C : e.key = key /\ e.toolName = t).row

updateCache(C, key, t, pref) ==
  {e \in C : ~(e.key = key /\ e.toolName = t)}
    \cup {[key |-> key, toolName |-> t, row |-> pref]}

CacheDelete(C, key) == {e \in C : e.key # key}

\* getToolPreference: the value returned ...
getToolPreference(R, C, s, t, c) ==
  IF CacheHas(C, CacheKey(s, c), t) THEN CacheGet(C, CacheKey(s, c), t)
  ELSE getServerTool(R, s, t, c)

\* ... and the cache it leaves behind
getToolPreferenceCache(R, C, s, t, c) ==
  IF CacheHas(C, CacheKey(s, c), t) THEN C
  ELSE IF getServerTool(R, s, t, c) # NoRow
         THEN updateCache(C, CacheKey(s, c), t, getServerTool(R, s, t, c))
         ELSE C

isToolEnabled(R, C, s, t, c) ==
  IF getToolPreference(R, C, s, t, c) # NoRow
    THEN getToolPreference(R, C, s, t, c).enabled
    ELSE TRUE

\* new Map(preferences.map((p) => [p.toolName, p])): the last entry of a name wins
RECURSIVE PreferenceMap(_, _)
PreferenceMap(prefs, m) ==
  IF prefs = <<>> THEN m ELSE PreferenceMap(Tail(prefs), MapSet(m, Head(prefs)))

ToolWithMetadata(tool, preference, s) ==
  [name |-> IF preference # NoRow /\ Truthy(preference.customName)
              THEN preference.customName ELSE tool.name,
   description |-> IF preference # NoRow /\ Truthy(preference.customDescription)
                     THEN preference.customDescription ELSE tool.description,
   inputSchema |-> tool.inputSchema,
   enabled |-> IF preference # NoRow THEN preference.enabled ELSE TRUE,
   customName |-> IF preference # NoRow THEN preference.customName ELSE UNDEF,
   customDescription |-> IF preference # NoRow THEN preference.customDescription ELSE UNDEF,
   serverName |-> ServerNameOf(s),
   serverId |-> s]

\* filterTools without its final .filter((tool) => tool.enabled)
filterToolsUnfiltered(R, tools, s, c) ==
  LET preferenceMap == PreferenceMap(getServerTools(R, s, c), <<>>)
  IN [i \in 1..Len(tools) |->
        ToolWithMetadata(tools[i], MapGet(preferenceMap, tools[i].name), s)]

filterTools(R, tools, s, c) ==
  LET preferenceMap == PreferenceMap(getServerTools(R, s, c), <<>>)
      mapped == [i \in 1..Len(tools) |->
                   ToolWithMetadata(tools[i], MapGet(preferenceMap, tools[i].name), s)]
  IN SelectSeq(mapped, LAMBDA tool : tool.enabled)

\* the service's bulk update: the repository's, then the scope's cache entry dropped
svcBulkRows(R, s, prefs, c) == repoBulkUpdateToolPreferences(R, s, prefs, c)

svcBulkCache(C, s, c) == CacheDelete(C, CacheKey(s, c))

\* a list that gives every announced tool the defaults, stored or not
InitPrefsDefaults(existingToolMap, tools) ==
  [i \in 1..Len(tools) |->
     [toolName |-> tools[i].name, clientId |-> UNDEF, enabled |-> TRUE,
      originalDescription |-> tools[i].description,
      customName |-> UNDEF, customDescription |-> UNDEF]]

\* initializeServerTools: the ToolPreferenceUpdate list built from the announced tools
RECURSIVE InitPrefs(_, _)
InitPrefs(existingToolMap, tools) ==
  IF tools = <<>> THEN <<>>
  ELSE LET tool == Head(tools)
           existing == MapGet(existingToolMap, tool.name)
           descriptionChanged == existing.originalDescription # tool.description
           wasEmpty == ~Truthy(existing.originalDescription) /\ Truthy(tool.description)
           this ==
             IF existing # NoRow
               THEN IF descriptionChanged \/ wasEmpty
                      THEN <<[toolName |-> tool.name, clientId |-> UNDEF,
                              enabled |-> existing.enabled,
                              originalDescription |-> tool.description,
                              customName |-> existing.customName,
                              customDescription |-> existing.customDescription]>>
                      ELSE <<>>
               ELSE <<[toolName |-> tool.name, clientId |-> UNDEF, enabled |-> TRUE,
                       originalDescription |-> tool.description,
                       customName |-> UNDEF, customDescription |-> UNDEF]>>
       IN this \o InitPrefs(existingToolMap, Tail(tools))

initializeServerToolsRows(R, s, tools) ==
  LET preferences == InitPrefs(PreferenceMap(getServerTools(R, s, UNDEF), <<>>), tools)
  IN IF Len(preferences) > 0 THEN svcBulkRows(R, s, preferences, UNDEF) ELSE R

initializeServerToolsCache(R, C, s, tools) ==
  LET preferences == InitPrefs(PreferenceMap(getServerTools(R, s, UNDEF), <<>>), tools)
  IN IF Len(preferences) > 0 THEN svcBulkCache(C, s, UNDEF) ELSE C

\* cleanupRemovedTools: the tool names of the global rows that are not announced
ToRemove(R, s, currentTools) ==
  {r.toolName : r \in {q \in R : q.serverId = s /\ q.clientId = NULL
                                   /\ q.toolName \notin currentTools}}

cleanupRemovedToolsRows(R, s, currentTools) ==
  {r \in R : ~(r.serverId = s /\ r.toolName \in ToRemove(R, s, currentTools))}

cleanupRemovedToolsCache(R, C, s, currentTools) ==
  IF ToRemove(R, s, currentTools) # {} THEN CacheDelete(C, RawKey(s)) ELSE C

ToolNamesOf(tools) == {tools[i].name : i \in 1..Len(tools)}

(***************************************************************************)
(* Inputs of the tool subsystem                                            *)
(***************************************************************************)
Setting(en, cn, cd) == [enabled |-> en, customName |-> cn, customDescription |-> cd]

Settings ==
  {Setting(TRUE, UNDEF, UNDEF), Setting(FALSE, UNDEF, UNDEF),
   Setting(TRUE, "alpha", "adesc")}

PrefUpdate(t, c, st) ==
  [toolName |-> t, clientId |-> c, enabled |-> st.enabled,
   originalDescription |-> UNDEF, customName |-> st.customName,
   customDescription |-> st.customDescription]

PrefInputs == {PrefUpdate(t, c, st) : t \in ToolNames, c \in Scopes, st \in Settings}

\* two-element update lists of one bulk request, all carrying the clientId pc
BulkInputs(pc) ==
  {<<PrefUpdate("t1", pc, Setting(TRUE, "alpha", UNDEF)),
     PrefUpdate("t3", pc, Setting(FALSE, UNDEF, UNDEF))>>,
   <<PrefUpdate("t1", pc, Setting(FALSE, UNDEF, UNDEF)),
     PrefUpdate("t2", pc, Setting(TRUE, UNDEF, "adesc"))>>}

Tool(n, d) == [name |-> n, description |-> d, inputSchema |-> <<"schema", n>>]

\* tool lists an upstream server may announce
AnnouncedLists ==
  {<<>>,
   <<Tool("t1", "d1"), Tool("t2", "d1"), Tool("t3", UNDEF)>>,
   <<Tool("t3", "d1"), Tool("t1", "d2")>>}

\* what each upstream server answers to listTools
Upstream(s) ==
  IF s = "A" THEN <<Tool("t1", "d1"), Tool("t2", "d1"), Tool("t3", UNDEF)>>
  ELSE <<Tool("u1", "d1")>>

\* token ids presented at the gate: of a stored token, and of none
PresentedIds == {"T1", "bad"}

NoOut == [op |-> "none"]

(***************************************************************************)
(* Router gate (spec section 4.H), over the Token Service's store          *)
(***************************************************************************)
TokenById(id) == CHOOSE tk \in tokens : tk.id = id

validate(id) == \E tk \in tokens : tk.id = id

Contains(ids, x) == \E i \in 1..Len(ids) : ids[i] = x

GateResult(id, s, t) ==
  IF ~validate(id) THEN "Unauthenticated"
  ELSE IF ~Contains(TokenById(id).serverIds, s) THEN "Forbidden"
  ELSE IF ~isToolEnabled(rows, cache, s, t, TokenById(id).clientId) THEN "ToolDisabled"
  ELSE "Forward"

(***************************************************************************)
(* Actions of the tool subsystem                                           *)
(***************************************************************************)
GetToolPreference(s, t, c) ==
  /\ nOps < MaxOps
  /\ nOps' = nOps + 1
  /\ cache' = getToolPreferenceCache(rows, cache, s, t, c)
  /\ out' = NoOut
  /\ UNCHANGED <<rows, outsideTools>>

\* a tool call at the gate: steps 1, 3 and 4; the filter is consulted (and its
\* cache filled) only for a valid token that grants the server
CallTool(id, s, t) ==
  /\ nOps < MaxOps
  /\ nOps' = nOps + 1
  /\ cache' = IF validate(id) /\ Contains(TokenById(id).serverIds, s)
                THEN getToolPreferenceCache(rows, cache, s, t, TokenById(id).clientId)
                ELSE cache
  /\ out' = NoOut
  /\ UNCHANGED <<rows, outsideTools>>

\* the tool list of server s as filtered for client c (filterTools applied to the
\* list the upstream server answers)
FilterTools(s, c) ==
  /\ out' = [op |-> "filter", serverId |-> s, clientId |-> c,
             result |-> filterTools(rows, Upstream(s), s, c)]
  /\ UNCHANGED <<rows, cache, nOps, outsideTools>>

UpdateToolPreference(s, p) ==
  /\ nOps < MaxOps
  /\ nOps' = nOps + 1
  /\ rows' = upsertToolPreference(rows, s, p)
  /\ cache' = updateCache(cache, CacheKey(s, p.clientId), p.toolName,
                          getServerTool(rows', s, p.toolName, p.clientId))
  /\ out' = NoOut
  /\ UNCHANGED outsideTools

BulkUpdateToolPreferences(s, prefs, c) ==
  /\ nOps < MaxOps
  /\ nOps' = nOps + 1
  /\ rows' = svcBulkRows(rows, s, prefs, c)
  /\ cache' = svcBulkCache(cache, s, c)
  /\ out' = NoOut
  /\ UNCHANGED outsideTools

EnableAllTools(s) ==
  /\ nOps < MaxOps
  /\ nOps' = nOps + 1
  /\ rows' = repoSetAllEnabled(rows, s, TRUE)
  /\ cache' = CacheDelete(cache, RawKey(s))
  /\ out' = NoOut
  /\ UNCHANGED outsideTools

DisableAllTools(s) ==
  /\ nOps < MaxOps
  /\ nOps' = nOps + 1
  /\ rows' = repoSetAllEnabled(rows, s, FALSE)
  /\ cache' = CacheDelete(cache, RawKey(s))
  /\ out' = NoOut
  /\ UNCHANGED outsideTools

ResetToolPreferences(s) ==
  /\ nOps < MaxOps
  /\ nOps' = nOps + 1
  /\ rows' = deleteServerToolPreferences(rows, s)
  /\ cache' = CacheDelete(cache, RawKey(s))
  /\ out' = NoOut
  /\ UNCHANGED outsideTools

\* fetchAndInitializeTools once listTools has answered
DiscoverTools(s, tools) ==
  /\ nOps < MaxOps
  /\ nOps' = nOps + 1
  /\ IF Len(tools) > 0
       THEN LET R1 == initializeServerToolsRows(rows, s, tools)
                C1 == initializeServerToolsCache(rows, cache, s, tools)
            IN /\ rows' = cleanupRemovedToolsRows(R1, s, ToolNamesOf(tools))
               /\ cache' = cleanupRemovedToolsCache(R1, C1, s, ToolNamesOf(tools))
       ELSE UNCHANGED <<rows, cache>>
  /\ out' = NoOut
  /\ UNCHANGED outsideTools

InitTokens ==
  {[id |-> "T1", clientId |-> "c", serverIds |-> <<"A">>],
   [id |-> "T2", clientId |-> "c", serverIds |-> <<"A", "B">>]}

InitTools ==
  /\ rows = {}
  /\ cache = {}
  /\ out = NoOut
  /\ nOps = 0

NextTools ==
  \/ \E s \in PrefServers, t \in ToolNames, c \in Scopes : GetToolPreference(s, t, c)
  \/ \E id \in PresentedIds, s \in ServerIds, t \in ToolNames : CallTool(id, s, t)
  \/ \E s \in PrefServers, c \in Scopes : FilterTools(s, c)
  \/ \E s \in PrefServers, p \in PrefInputs : UpdateToolPreference(s, p)
  \/ \E s \in PrefServers, c \in Scopes, pc \in Scopes :
       \E prefs \in BulkInputs(pc) : BulkUpdateToolPreferences(s, prefs, c)
  \/ \E s \in PrefServers : EnableAllTools(s)
  \/ \E s \in PrefServers : DisableAllTools(s)
  \/ \E s \in PrefServers : ResetToolPreferences(s)
  \/ \E s \in PrefServers, tools \in AnnouncedLists : DiscoverTools(s, tools)

\* the writes of preferences and the discoveries alone
NextDiscovery ==
  \/ \E s \in PrefServers, p \in PrefInputs : UpdateToolPreference(s, p)
  \/ \E s \in PrefServers, c \in Scopes, pc \in Scopes :
       \E prefs \in BulkInputs(pc) : BulkUpdateToolPreferences(s, prefs, c)
  \/ \E s \in PrefServers, tools \in AnnouncedLists : DiscoverTools(s, tools)

(***************************************************************************)
(* Server Manager                                                          *)
(***************************************************************************)
MaxStarts == 3

\* the servers the manager knows after loadServersFromDatabase
ManagedIds == ServerIds \cup {"D"}
\* servers whose configuration has disabled = true
DisabledIds == {"D"}

\* listTokens(): the tokens in the store's order
TokenOrder == <<"T1", "T2">>
TokenPos(id) == CHOOSE i \in 1..Len(TokenOrder) : TokenOrder[i] = id

\* token.serverIds.filter((id) => id !== serverId)
Without(ids, serverId) == SelectSeq(ids, LAMBDA x : x # serverId)

\* where the token store fails during a removal: nowhere, in listTokens, or in
\* updateTokenServerAccess of one token
TokenFailures == {"none", "list"} \cup {TokenOrder[i] : i \in 1..Len(TokenOrder)}

\* position of the first token whose update throws (0: listTokens throws;
\* past the end: no update throws)
FailPos(T, serverId, failAt) ==
  IF failAt = "list" THEN 0
  ELSE IF failAt # "none" /\ (\E tk \in T : tk.id = failAt /\ Contains(tk.serverIds, serverId))
    THEN TokenPos(failAt)
  ELSE Len(TokenOrder) + 1

removeServerFromTokens(T, serverId, failAt) ==
  {IF Contains(tk.serverIds, serverId) /\ TokenPos(tk.id) < FailPos(T, serverId, failAt)
     THEN [tk EXCEPT !.serverIds = Without(tk.serverIds, serverId)]
     ELSE tk : tk \in T}

\* stopServer, as the status map, the pool and the live clients it leaves;
\* logThrows: recordRequestLog throws inside the try block
stopServerStatus(S, C, id, logThrows) ==
  IF S[id] = "absent" THEN S
  ELSE IF C[id] = 0 THEN [S EXCEPT ![id] = "stopped"]
  ELSE IF logThrows THEN [S EXCEPT ![id] = "error"]
  ELSE [S EXCEPT ![id] = "stopped"]

stopServerClients(S, C, id, logThrows) ==
  IF S[id] = "absent" \/ C[id] = 0 \/ logThrows THEN C ELSE [C EXCEPT ![id] = 0]

stopServerLive(S, C, L, id, logThrows) ==
  IF S[id] = "absent" \/ C[id] = 0 \/ logThrows THEN L ELSE L \ {C[id]}

\* the same requests executed one at a time: a start runs to its end before
\* the next request is looked at
SeqStart(q, id, ok) ==
  IF q.status[id] = "absent" \/ id \in DisabledIds \/ q.pool[id] THEN q
  ELSE IF ok THEN [q EXCEPT !.status[id] = "running", !.pool[id] = TRUE]
  ELSE [q EXCEPT !.status[id] = "error"]

SeqStop(q, id, logThrows) ==
  IF q.status[id] = "absent" THEN q
  ELSE IF ~q.pool[id] THEN [q EXCEPT !.status[id] = "stopped"]
  ELSE IF logThrows THEN [q EXCEPT !.status[id] = "error"]
  ELSE [q EXCEPT !.status[id] = "stopped", !.pool[id] = FALSE]

SeqRemove(q, id, logThrows) ==
  LET q1 == IF q.pool[id] THEN SeqStop(q, id, logThrows) ELSE q
  IN IF q1.record[id] /\ q1.status[id] # "absent"
       THEN [q1 EXCEPT !.status[id] = "absent", !.record[id] = FALSE]
       ELSE [q1 EXCEPT !.record[id] = FALSE]

\* a startServer that does not look at the pool before it connects
StartServerAgain(id, ok) ==
  /\ nStarts < MaxStarts
  /\ seq' = SeqStart(seq, id, ok)
  /\ IF servers[id] = "absent" \/ id \in DisabledIds
       THEN UNCHANGED <<servers, starts, nStarts>>
       ELSE /\ servers' = [servers EXCEPT ![id] = "starting"]
            /\ nStarts' = nStarts + 1
            /\ starts' = starts \cup {[id |-> id, n |-> nStarts', ok |-> ok]}
  /\ UNCHANGED <<dbServers, clients, live, tokens, outsideServers>>

\* startServer up to its await; ok is the result the connection attempt will have
StartServer(id, ok) ==
  /\ nStarts < MaxStarts
  /\ seq' = SeqStart(seq, id, ok)
  /\ IF servers[id] = "absent" \/ id \in DisabledIds \/ clients[id] # 0
       THEN UNCHANGED <<servers, starts, nStarts>>
       ELSE /\ servers' = [servers EXCEPT ![id] = "starting"]
            /\ nStarts' = nStarts + 1
            /\ starts' = starts \cup {[id |-> id, n |-> nStarts', ok |-> ok]}
  /\ UNCHANGED <<dbServers, clients, live, tokens, outsideServers>>

\* startServer from the point where connectToServerWithResult has answered; the
\* server object it holds is the map's entry unless that entry has been deleted
StartServerResume(st) ==
  /\ st \in starts
  /\ starts' = starts \ {st}
  /\ IF st.ok
       THEN /\ clients' = [clients EXCEPT ![st.id] = st.n]
            /\ live' = live \cup {st.n}
            /\ servers' = IF servers[st.id] = "absent" THEN servers
                          ELSE [servers EXCEPT ![st.id] = "running"]
       ELSE /\ servers' = IF servers[st.id] = "absent" THEN servers
                          ELSE [servers EXCEPT ![st.id] = "error"]
            /\ UNCHANGED <<clients, live>>
  /\ UNCHANGED <<dbServers, nStarts, seq, tokens, outsideServers>>

StopServer(id, logThrows) ==
  /\ servers' = stopServerStatus(servers, clients, id, logThrows)
  /\ clients' = stopServerClients(servers, clients, id, logThrows)
  /\ live' = stopServerLive(servers, clients, live, id, logThrows)
  /\ seq' = SeqStop(seq, id, logThrows)
  /\ UNCHANGED <<dbServers, starts, nStarts, tokens, outsideServers>>

RemoveServer(id, logThrows, failAt) ==
  LET stopping == clients[id] # 0
      S1 == IF stopping THEN stopServerStatus(servers, clients, id, logThrows) ELSE servers
      removed == id \in dbServers
  IN /\ clients' = IF stopping THEN stopServerClients(servers, clients, id, logThrows)
                   ELSE clients
     /\ live' = IF stopping THEN stopServerLive(servers, clients, live, id, logThrows)
                ELSE live
     /\ tokens' = removeServerFromTokens(tokens, id, failAt)
     /\ dbServers' = dbServers \ {id}
     /\ servers' = IF removed /\ servers[id] # "absent"
                     THEN [S1 EXCEPT ![id] = "absent"] ELSE S1
     /\ seq' = SeqRemove(seq, id, logThrows)
     /\ UNCHANGED <<starts, nStarts, outsideServers>>

InitServers ==
  /\ servers = [id \in ManagedIds |-> "stopped"]
  /\ dbServers = ManagedIds
  /\ clients = [id \in ManagedIds |-> 0]
  /\ live = {}
  /\ starts = {}
  /\ nStarts = 0
  /\ seq = [status |-> [id \in ManagedIds |-> "stopped"],
            pool |-> [id \in ManagedIds |-> FALSE],
            record |-> [id \in ManagedIds |-> TRUE]]

NextServers ==
  \/ \E id \in ManagedIds, ok \in BOOLEAN : StartServer(id, ok) /\ UNCHANGED last
  \/ \E st \in starts : StartServerResume(st) /\ UNCHANGED last
  \/ \E id \in ManagedIds, logThrows \in BOOLEAN :
       StopServer(id, logThrows) /\ UNCHANGED last
  \/ \E id \in ManagedIds, logThrows \in BOOLEAN, failAt \in TokenFailures :
       RemoveServer(id, logThrows, failAt) /\ UNCHANGED last

\* clearAllServers: stopServer for every id of the pool, then the maps are
\* cleared; failing: the servers in whose stopServer recordRequestLog throws
ClearAllServers(failing) ==
  LET closed == {id \in ManagedIds :
                   stopServerClients(servers, clients, id, id \in failing) # clients}
  IN /\ live' = live \ {clients[id] : id \in closed}
     /\ servers' = [id \in ManagedIds |-> "absent"]
     /\ clients' = [id \in ManagedIds |-> 0]
     /\ seq' = [seq EXCEPT !.status = [id \in ManagedIds |-> "absent"],
                           !.pool = [id \in ManagedIds |-> FALSE]]
     /\ UNCHANGED <<dbServers, starts, nStarts, tokens, outsideServers>>

\* a workspace in use and its switch
NextWorkspace ==
  \/ \E id \in ServerIds, ok \in BOOLEAN : StartServer(id, ok) /\ UNCHANGED last
  \/ \E st \in starts : StartServerResume(st) /\ UNCHANGED last
  \/ \E id \in ServerIds, logThrows \in BOOLEAN :
       StopServer(id, logThrows) /\ UNCHANGED last
  \/ \E failing \in SUBSET ServerIds : ClearAllServers(failing) /\ UNCHANGED last

\* the lifecycle requests of a workspace whose set of servers stays as it is,
\* each recorded with the state it was made in
NoRequest == [op |-> "none", status |-> "stopped", client |-> 0]

Request(op, id) ==
  [last EXCEPT ![id] = [op |-> op, status |-> servers[id], client |-> clients[id]]]

InitLifecycle == last = [id \in ServerIds |-> NoRequest]

NextLifecycle ==
  \/ \E id \in ServerIds, ok \in BOOLEAN :
       StartServer(id, ok) /\ last' = Request("start", id)
  \/ \E st \in starts : StartServerResume(st) /\ UNCHANGED last
  \/ \E id \in ServerIds, logThrows \in BOOLEAN :
       StopServer(id, logThrows) /\ last' = Request("stop", id)

\* startup: initializeAsync -> loadServersFromDatabase
\* getAllServers(): the stored records in some order
LoadOrders ==
  {o \in [1..Cardinality(ManagedIds) -> ManagedIds] :
     \A i, j \in DOMAIN o : i # j => o[i] # o[j]}

\* the loop goes on to the next record, or ends after the last one
Advance(l) ==
  [l EXCEPT !.i = l.i + 1, !.st = IF l.i = Len(l.order) THEN "done" ELSE "loop"]

\* one iteration of the loop, up to the await inside startServer or to the
\* iteration's end; ok is the result the connection attempt will have
LoadServersFromDatabase(ok) ==
  /\ load.st = "loop"
  /\ LET id == load.order[load.i]
     IN IF id \in load.autoStart /\ id \notin DisabledIds /\ clients[id] = 0
          THEN /\ servers' = [servers EXCEPT ![id] = "starting"]
               /\ nStarts' = nStarts + 1
               /\ starts' = starts \cup {[id |-> id, n |-> nStarts', ok |-> ok]}
               /\ load' = [load EXCEPT !.st = "await"]
          ELSE /\ servers' = [servers EXCEPT ![id] = "stopped"]
               /\ load' = Advance(load)
               /\ UNCHANGED <<starts, nStarts>>
  /\ UNCHANGED <<dbServers, clients, live, seq, last, tokens, toolVars, oauthVars,
                 rateVars, extVars>>

\* the awaited startServer answers: it returns and the loop goes on, or it
\* throws and the catch around the loop ends the loading
LoadServersResume(st) ==
  /\ load.st = "await"
  /\ st \in starts
  /\ starts' = starts \ {st}
  /\ IF st.ok
       THEN /\ clients' = [clients EXCEPT ![st.id] = st.n]
            /\ live' = live \cup {st.n}
            /\ servers' = [servers EXCEPT ![st.id] = "running"]
            /\ load' = Advance(load)
       ELSE /\ servers' = [servers EXCEPT ![st.id] = "error"]
            /\ load' = [load EXCEPT !.st = "aborted"]
            /\ UNCHANGED <<clients, live>>
  /\ UNCHANGED <<dbServers, nStarts, seq, last, tokens, toolVars, oauthVars,
                 rateVars, extVars>>

\* the loading has ended with no record marked autoStart
Loaded ==
  [order |-> <<"A", "B", "D">>, autoStart |-> {}, i |-> Cardinality(ManagedIds) + 1,
   st |-> "done"]

\* a new ServerManager: empty maps, before initializeAsync
InitStartup ==
  /\ servers = [id \in ManagedIds |-> "absent"]
  /\ dbServers = ManagedIds
  /\ clients = [id \in ManagedIds |-> 0]
  /\ live = {}
  /\ starts = {}
  /\ nStarts = 0
  /\ seq = [status |-> [id \in ManagedIds |-> "stopped"],
            pool |-> [id \in ManagedIds |-> FALSE],
            record |-> [id \in ManagedIds |-> TRUE]]
  /\ \E o \in LoadOrders, a \in SUBSET ManagedIds :
       load = [order |-> o, autoStart |-> a, i |-> 1, st |-> "loop"]

NextStartup ==
  \/ \E ok \in BOOLEAN : LoadServersFromDatabase(ok)
  \/ \E st \in starts : LoadServersResume(st)

(***************************************************************************)
(* OAuth token manager: the refresh path of one server                     *)
(***************************************************************************)
MaxRefreshes == 2
MAX_REFRESH_RETRIES == 3

Callers == {"c1", "c2", "c3"}
TokenIds == 1..(MaxRefreshes + 1)

PhaseRank(ph) == CASE ph = "none" -> 0 [] ph = "fresh" -> 1 [] ph = "window" -> 2
                   [] ph = "expired" -> 3

NextPhase(ph) == IF ph = "fresh" THEN "window" ELSE "expired"

\* expiresAt <= now + DEFAULT_EXPIRY_BUFFER
shouldRefreshToken(tk) == phase[tk] \in {"window", "expired"}

\* expiresAt <= now
isTokenExpired(tk) == phase[tk] = "expired"

Idle == [st |-> "idle", on |-> 0, starter |-> FALSE, old |-> 0, result |-> <<"none">>]

Waiting(c) == calls[c].st = "waiting"

\* a delay that does not grow with the attempts
BackoffFlat(attempt) == 1000 + 0 * attempt

\* the delay, in ms, performTokenRefresh waits after its failed attempt
Backoff(attempt) ==
  LET delay == 1000 * 2^(attempt - 1)
  IN IF delay < 10000 THEN delay ELSE 10000

\* UPDATE server_oauth_tokens SET refresh_count = refresh_count + 1 WHERE
\* server_id = ?: the count of the row, if there is a row
incrementRefreshCount(row, count) == IF row # 0 THEN count + 1 ELSE count

\* the token object refreshAccessToken builds from the response: it has no id
\* and no refreshCount
RefreshedToken == [serverId |-> "A"]

\* INSERT OR REPLACE of the server's row (server_id is UNIQUE): the row takes
\* token.refreshCount || 0, whatever count it had
saveToken(count, token) ==
  [refreshCount |-> IF "refreshCount" \in DOMAIN token /\ token.refreshCount # 0
                      THEN token.refreshCount ELSE 0]

\* TokenManagerService.refreshToken up to its await: performTokenRefresh is
\* started with the given token and its promise registered, whatever is
\* registered already
BeginRefresh(tk) ==
  /\ nRefresh < MaxRefreshes
  /\ nRefresh' = nRefresh + 1
  /\ ops' = ops \cup {[n |-> nRefresh', attempt |-> 1, old |-> tk, waits |-> <<>>]}
  /\ refreshPromises' = nRefresh'

\* bookkeeping of the overlap group when caller c issues its call
JoinGroup(c) ==
  IF \E d \in Callers : Waiting(d)
    THEN /\ group' = group \cup {c}
         /\ groupWindow' = (groupWindow /\ stored # 0 /\ shouldRefreshToken(stored))
         /\ UNCHANGED httpCount
    ELSE /\ group' = {c}
         /\ groupWindow' = (stored # 0 /\ shouldRefreshToken(stored))
         /\ httpCount' = 0

\* OAuthService.getAccessToken -> TokenManagerService.getValidToken, up to its
\* first await or its return
GetAccessToken(c) ==
  /\ calls[c].st = "idle"
  /\ JoinGroup(c)
  /\ IF stored = 0
       THEN /\ calls' = [calls EXCEPT ![c] = [Idle EXCEPT !.st = "done",
                                                !.result = <<"null">>]]
            /\ UNCHANGED <<ops, nRefresh, refreshPromises>>
       ELSE IF ~shouldRefreshToken(stored)
       THEN /\ calls' = [calls EXCEPT ![c] = [Idle EXCEPT !.st = "done",
                                                !.result = <<"token", stored>>]]
            /\ UNCHANGED <<ops, nRefresh, refreshPromises>>
       ELSE IF refreshPromises # 0
         THEN /\ calls' = [calls EXCEPT ![c] = [Idle EXCEPT !.st = "waiting",
                                                  !.on = refreshPromises, !.old = stored]]
              /\ UNCHANGED <<ops, nRefresh, refreshPromises>>
         ELSE /\ BeginRefresh(stored)
              /\ calls' = [calls EXCEPT ![c] = [Idle EXCEPT !.st = "waiting",
                                                  !.on = nRefresh', !.starter = TRUE,
                                                  !.old = stored]]
  /\ UNCHANGED <<stored, phase, issued, timer, refreshCount, revoke,
                 outsideOAuth>>

\* OAuthService.refreshToken, reached from the oauth:refreshToken handler and
\* from the token injector's 401 handling, below its rate limit
RefreshToken ==
  /\ stored # 0
  /\ BeginRefresh(stored)
  /\ UNCHANGED <<stored, phase, issued, timer, calls, group, groupWindow, httpCount,
                 refreshCount, revoke,
                 outsideOAuth>>

\* the callback of scheduleTokenRefresh's timer, due when the token it captured
\* enters the refresh window
TimerFires ==
  /\ timer # 0
  /\ shouldRefreshToken(timer)
  /\ BeginRefresh(timer)
  /\ timer' = 0
  /\ UNCHANGED <<stored, phase, issued, calls, group, groupWindow, httpCount,
                 refreshCount, revoke,
                 outsideOAuth>>

\* checkAndRefreshExpiredTokens, run by the maintenance interval
MaintenanceSweep ==
  /\ stored # 0
  /\ isTokenExpired(stored)
  /\ BeginRefresh(stored)
  /\ UNCHANGED <<stored, phase, issued, timer, calls, group, groupWindow, httpCount,
                 refreshCount, revoke,
                 outsideOAuth>>

\* a getValidToken whose catch returns the token it read, expired or not
SettleWithOldToken(c, op, ok, new) ==
  IF calls[c].st = "waiting" /\ calls[c].on = op.n
    THEN [calls[c] EXCEPT
            !.st = "done",
            !.result = IF ok THEN <<"token", new>>
                       ELSE IF ~calls[c].starter THEN <<"throw">>
                       ELSE <<"token", calls[c].old>>]
    ELSE calls[c]

\* what a getAccessToken call suspended on run op returns once op has settled
Settle(c, op, ok, new) ==
  IF calls[c].st = "waiting" /\ calls[c].on = op.n
    THEN [calls[c] EXCEPT
            !.st = "done",
            !.result = IF ok THEN <<"token", new>>
                       ELSE IF ~calls[c].starter THEN <<"throw">>
                       ELSE IF ~isTokenExpired(calls[c].old) THEN <<"token", calls[c].old>>
                       ELSE <<"null">>]
    ELSE calls[c]

\* the token endpoint answers the request of run op: on success
\* refreshAccessToken saves the new token and refreshToken schedules the timer;
\* on failure performTokenRefresh tries again until MAX_REFRESH_RETRIES; when
\* the run settles, refreshToken's finally deletes the server's registration
HttpResponse(op, ok) ==
  /\ op \in ops
  /\ httpCount' = IF \E c \in Callers : Waiting(c) THEN httpCount + 1 ELSE httpCount
  /\ IF ok
       THEN /\ issued' = issued + 1
            /\ stored' = issued'
            /\ refreshCount' = saveToken(incrementRefreshCount(stored, refreshCount),
                                         RefreshedToken).refreshCount
            /\ phase' = [phase EXCEPT ![issued'] = "fresh"]
            /\ timer' = issued'
            /\ ops' = ops \ {op}
            /\ refreshPromises' = 0
            /\ calls' = [c \in Callers |-> Settle(c, op, TRUE, issued')]
       ELSE IF op.attempt < MAX_REFRESH_RETRIES
         THEN /\ ops' = (ops \ {op}) \cup
                          {[op EXCEPT !.attempt = op.attempt + 1,
                                      !.waits = Append(op.waits, Backoff(op.attempt))]}
              /\ UNCHANGED <<issued, stored, refreshCount, phase, timer, refreshPromises,
                             calls>>
         ELSE /\ ops' = ops \ {op}
              /\ refreshPromises' = 0
              /\ calls' = [c \in Callers |-> Settle(c, op, FALSE, 0)]
              /\ UNCHANGED <<issued, stored, refreshCount, phase, timer>>
  /\ UNCHANGED <<nRefresh, group, groupWindow, revoke, outsideOAuth>>

\* revokeToken up to its await (with a revocation endpoint configured) or to
\* its end (without one): the timer is cancelled first, the row deleted last
RevokeToken(hasEndpoint) ==
  /\ revoke # "await"
  /\ stored # 0
  /\ timer' = 0
  /\ IF hasEndpoint
       THEN revoke' = "await" /\ UNCHANGED <<stored, refreshCount>>
       ELSE revoke' = "done" /\ stored' = 0 /\ refreshCount' = 0
  /\ UNCHANGED <<phase, issued, refreshPromises, ops, nRefresh, calls, group,
                 groupWindow, httpCount, outsideOAuth>>

\* the revocation endpoint has answered or failed (ok); either way deleteToken
\* removes the row that is stored then
RevokeTokenResume(ok) ==
  /\ revoke = "await"
  /\ revoke' = "done"
  /\ stored' = 0
  /\ refreshCount' = 0
  /\ UNCHANGED <<phase, issued, refreshPromises, ops, nRefresh, timer, calls, group,
                 groupWindow, httpCount, outsideOAuth>>

\* time passes: a token comes nearer to its expiry, never ahead of an older one
Tick(tk) ==
  /\ phase[tk] \in {"fresh", "window"}
  /\ \A older \in TokenIds :
       (older < tk /\ phase[older] # "none")
         => PhaseRank(phase[older]) >= PhaseRank(NextPhase(phase[tk]))
  /\ phase' = [phase EXCEPT ![tk] = NextPhase(phase[tk])]
  /\ UNCHANGED <<stored, issued, refreshPromises, ops, nRefresh, timer, calls, group,
                 groupWindow, httpCount, refreshCount, revoke,
                 outsideOAuth>>

\* after storeToken of the first token: saved, and its refresh timer scheduled
InitOAuth ==
  /\ stored = 1
  /\ issued = 1
  /\ phase = [tk \in TokenIds |-> IF tk = 1 THEN "fresh" ELSE "none"]
  /\ refreshPromises = 0
  /\ ops = {}
  /\ nRefresh = 0
  /\ timer = 1
  /\ calls = [c \in Callers |-> Idle]
  /\ group = {}
  /\ groupWindow = FALSE
  /\ httpCount = 0
  /\ refreshCount = 0
  /\ revoke = "idle"

NextOAuth ==
  \/ \E c \in Callers : GetAccessToken(c)
  \/ RefreshToken
  \/ TimerFires
  \/ MaintenanceSweep
  \/ \E op \in ops, ok \in BOOLEAN : HttpResponse(op, ok)
  \/ \E tk \in TokenIds : Tick(tk)

\* the token manager with one caller and a revocation
NextRevoke ==
  \/ GetAccessToken("c1")
  \/ RefreshToken
  \/ TimerFires
  \/ MaintenanceSweep
  \/ \E op \in ops, ok \in BOOLEAN : HttpResponse(op, ok)
  \/ \E tk \in TokenIds : Tick(tk)
  \/ \E hasEndpoint \in BOOLEAN : RevokeToken(hasEndpoint)
  \/ \E ok \in BOOLEAN : RevokeTokenResume(ok)

(***************************************************************************)
(* OAuth rate limits: OAuthSecurityService.checkRateLimit and its callers   *)
(***************************************************************************)
MaxAdvances == 3

maxAuthAttemptsPerDay == 10
RefreshesPerHour == 30
HourMs == 60 * 60 * 1000
DayMs == 24 * 60 * 60 * 1000

\* `auth:${serverId}` and `refresh:${serverId}` of one server
RateKeys == {"auth:A", "refresh:A"}

LimitOf(key) == IF key = "auth:A" THEN maxAuthAttemptsPerDay ELSE RefreshesPerHour

WindowOf(key) == IF key = "auth:A" THEN DayMs ELSE HourMs

\* no entry in rateLimitTracking
NoTracking == [count |-> 0, resetTime |-> 0]

\* a limiter that counts but never refuses
checkRateLimitOpen(tracking, limit, windowMs, t) ==
  IF tracking = NoTracking \/ t > tracking.resetTime
    THEN [allowed |-> TRUE, remaining |-> limit - 1, resetTime |-> t + windowMs,
          tracking |-> [count |-> 1, resetTime |-> t + windowMs]]
    ELSE [allowed |-> TRUE, remaining |-> limit - (tracking.count + 1),
          resetTime |-> tracking.resetTime,
          tracking |-> [tracking EXCEPT !.count = tracking.count + 1]]

\* checkRateLimit at time t: its result, and the entry it leaves in the map
checkRateLimit(tracking, limit, windowMs, t) ==
  IF tracking = NoTracking \/ t > tracking.resetTime
    THEN [allowed |-> TRUE, remaining |-> limit - 1, resetTime |-> t + windowMs,
          tracking |-> [count |-> 1, resetTime |-> t + windowMs]]
  ELSE IF tracking.count >= limit
    THEN [allowed |-> FALSE, remaining |-> 0, resetTime |-> tracking.resetTime,
          tracking |-> tracking]
  ELSE [allowed |-> TRUE, remaining |-> limit - (tracking.count + 1),
        resetTime |-> tracking.resetTime,
        tracking |-> [tracking EXCEPT !.count = tracking.count + 1]]

NoCheck == [allowed |-> TRUE, remaining |-> 0, resetTime |-> 0]

\* now lies in the window the key's entry stands for
InWindow(key) ==
  rateLimitTracking[key] # NoTracking /\ now <= rateLimitTracking[key].resetTime

\* a rate-limited request for key: OAuthService.authenticate up to
\* initiateAuthFlow, OAuthService.refreshToken up to tokenManager.refreshToken,
\* which are begun only if the check allows; the configuration and, for a
\* refresh, the token exist
RateLimitedRequest(key) ==
  LET r == checkRateLimit(rateLimitTracking[key], LimitOf(key), WindowOf(key), now)
  IN /\ rateLimitTracking' = [rateLimitTracking EXCEPT ![key] = r.tracking]
     /\ lastCheck' = [lastCheck EXCEPT ![key] = [allowed |-> r.allowed,
                                                remaining |-> r.remaining,
                                                resetTime |-> r.resetTime]]
     /\ granted' = IF ~r.allowed THEN granted
                   ELSE IF InWindow(key) THEN [granted EXCEPT ![key] = granted[key] + 1]
                   ELSE [granted EXCEPT ![key] = 1]
     /\ UNCHANGED <<now, nAdvances, outsideRate>>

Authenticate == RateLimitedRequest("auth:A")

RefreshTokenRequest == RateLimitedRequest("refresh:A")

\* time passes
ClockAdvance(d) ==
  /\ nAdvances < MaxAdvances
  /\ nAdvances' = nAdvances + 1
  /\ now' = now + d
  /\ UNCHANGED <<rateLimitTracking, granted, lastCheck, outsideRate>>

InitRateLimit ==
  /\ now = 0
  /\ rateLimitTracking = [key \in RateKeys |-> NoTracking]
  /\ granted = [key \in RateKeys |-> 0]
  /\ lastCheck = [key \in RateKeys |-> NoCheck]
  /\ nAdvances = 0

NextRateLimit ==
  \/ Authenticate
  \/ RefreshTokenRequest
  \/ \E d \in {HourMs, DayMs} : ClockAdvance(d)

\* every path that begins a token refresh, within one hour: the explicit
\* request passes checkRateLimit and its refresh is turned down by the token
\* endpoint at once; getValidToken, the refresh timer and the maintenance sweep
\* call TokenManagerService.refreshToken themselves
NextRefreshPaths ==
  \/ RefreshTokenRequest
  \/ GetAccessToken("c1")
  \/ TimerFires
  \/ MaintenanceSweep
  \/ \E op \in ops, ok \in BOOLEAN : HttpResponse(op, ok)
  \/ \E tk \in TokenIds : Tick(tk)

(***************************************************************************)
(* The OAuth-aware fetch wrapper: createOAuthFetch and OAuthTokenInjector   *)
(***************************************************************************)
\* createOAuthFetch's default for options.maxRetries
maxRetries == 1

Statuses == {200, 401}

\* no request made yet; auth is the token of the Authorization header (0: no
\* header), sent and got are the headers sent and the statuses received, new
\* is what handleUnauthorized returned (0: null, or not called)
NoFetch == [pc |-> "idle", retryCount |-> 0, auth |-> 0, refreshes |-> 0,
            sent |-> <<>>, got |-> <<>>, new |-> 0]

\* what the fetch wrapper leaves alone
outsideFetch == <<refreshPromises, ops, nRefresh, calls, group, groupWindow, httpCount,
                  revoke, toolVars, tokens, serverVars, last, load, rateVars, flow,
                  keys,
                  bk,
                  mig,
                  audit>>

\* TokenManagerService.refreshToken awaited to its end, with nothing else
\* in between: on success (ok) refreshAccessToken has saved the new token and
\* its refresh timer is scheduled, on failure the row is as it was
RefreshAwaited(ok) ==
  /\ ok => issued < MaxRefreshes + 1
  /\ IF ok
       THEN /\ issued' = issued + 1
            /\ stored' = issued'
            /\ refreshCount' = saveToken(incrementRefreshCount(stored, refreshCount),
                                         RefreshedToken).refreshCount
            /\ phase' = [phase EXCEPT ![issued'] = "fresh"]
            /\ timer' = issued'
       ELSE UNCHANGED <<issued, stored, refreshCount, phase, timer>>

\* oauthFetch is called: retryCount = 0 and the loop is entered
OAuthFetch ==
  /\ req.pc = "idle"
  /\ req' = [NoFetch EXCEPT !.pc = "inject"]
  /\ UNCHANGED <<issued, stored, refreshCount, phase, timer, outsideFetch>>

\* tokenInjector.injectToken at the head of the loop: the server has an OAuth
\* configuration, so the header is what getAccessToken -> getValidToken gives,
\* which refreshes a token that is inside its refresh window (ok: the result
\* of that refresh)
InjectToken(ok) ==
  /\ req.pc = "inject"
  /\ IF stored = 0
       THEN /\ ok
            /\ req' = [req EXCEPT !.pc = "fetch", !.auth = 0]
            /\ UNCHANGED <<issued, stored, refreshCount, phase, timer>>
       ELSE IF ~shouldRefreshToken(stored)
       THEN /\ ok
            /\ req' = [req EXCEPT !.pc = "fetch", !.auth = stored]
            /\ UNCHANGED <<issued, stored, refreshCount, phase, timer>>
       ELSE /\ RefreshAwaited(ok)
            /\ req' = [req EXCEPT !.pc = "fetch",
                                  !.refreshes = req.refreshes + 1,
                                  !.auth = IF ok THEN issued'
                                           ELSE IF ~isTokenExpired(stored) THEN stored
                                           ELSE 0]
  /\ UNCHANGED outsideFetch

\* fetch(input, {...init, headers}) answers with status: a 401 below
\* maxRetries goes on to handleUnauthorized, anything else is returned
Fetch(status) ==
  /\ req.pc = "fetch"
  /\ req' = [req EXCEPT !.sent = Append(req.sent, req.auth),
                        !.got = Append(req.got, status),
                        !.pc = IF status = 401 /\ req.retryCount < maxRetries
                                 THEN "handle" ELSE "done"]
  /\ UNCHANGED <<issued, stored, refreshCount, phase, timer, outsideFetch>>

\* tokenInjector.handleUnauthorized -> OAuthService.refreshToken: null without
\* a token row or when the refresh window's limit is used up (allowed: the
\* answer of checkRateLimit), else the token manager's refresh; a new token
\* sets the header, counts the retry and continues the loop, which injects the
\* token again; null returns the response
HandleUnauthorized(allowed, ok) ==
  /\ req.pc = "handle"
  /\ IF stored = 0 \/ ~allowed
       THEN /\ ok
            /\ req' = [req EXCEPT !.pc = "done"]
            /\ UNCHANGED <<issued, stored, refreshCount, phase, timer>>
       ELSE /\ RefreshAwaited(ok)
            /\ req' = IF ok
                        THEN [req EXCEPT !.pc = "inject",
                                         !.refreshes = req.refreshes + 1,
                                         !.new = issued',
                                         !.auth = issued',
                                         !.retryCount = req.retryCount + 1]
                        ELSE [req EXCEPT !.pc = "done",
                                         !.refreshes = req.refreshes + 1]
  /\ UNCHANGED outsideFetch

InitFetch == req = NoFetch

NextFetch ==
  \/ OAuthFetch
  \/ \E ok \in BOOLEAN : InjectToken(ok)
  \/ \E status \in Statuses : Fetch(status)
  \/ \E allowed, ok \in BOOLEAN : HandleUnauthorized(allowed, ok)
  \/ \E tk \in TokenIds : Tick(tk)

(***************************************************************************)
(* The authorization flow: OAuthFlowService                                *)
(***************************************************************************)
MaxFlows == 2

\* the calls of initiateAuthFlow, in the order they are made; the state a call
\* generates is the call's number (generateSecureRandom gives each its own)
FlowIds == 1..MaxFlows

\* a redirect to REDIRECT_URI: whether it has an error parameter, its code
\* (0: none) and its state (0: none; MaxFlows + 1: a state no call generated)
Redirects == [error : BOOLEAN, code : {0, 1}, state : 0..(MaxFlows + 1)]

NoRedirect == [error |-> FALSE, code |-> 0, state |-> 0]

\* a flow: got is the redirect that reached it while it waited, by the event
\* that ended its waiting
NoFlow == [st |-> "none", server |-> "A", got |-> NoRedirect, by |-> "none"]

\* what the authorization flow leaves alone
outsideFlow == <<toolVars, tokens, serverVars, last, load, oauthVars, rateVars, req,
                 keys,
                 bk,
                 mig,
                 audit>>

\* handleCallback: the code and state of the redirect, or an error
handleCallback(r) ==
  IF r.error THEN [error |-> TRUE, code |-> 0, state |-> r.state]
  ELSE IF r.code = 0 \/ r.state = 0 THEN [error |-> TRUE, code |-> 0, state |-> 0]
  ELSE [error |-> FALSE, code |-> r.code, state |-> r.state]

\* window w is closed: its "closed" handler sets authWindow to null and
\* resolves the flow's promise with null, which fails a flow still waiting
CloseWindow(a, w) ==
  [a EXCEPT !.open = @ \ {w}, !.authWindow = 0,
            !.flows[w].st = IF @ = "await" THEN "failed" ELSE @]

\* cleanup(): the window of this.authWindow is closed, the server that
\* this.localServer refers to is closed, which frees the port if that server
\* is the one bound to it, and the entries of authStateMap older than one
\* hour are deleted
cleanup(a) ==
  LET closed == IF a.authWindow # 0 /\ a.authWindow \in a.open
                  THEN CloseWindow(a, a.authWindow) ELSE a
  IN [closed EXCEPT
        !.authWindow = 0,
        !.bound = IF a.localServer # 0 /\ @ = a.localServer THEN 0 ELSE @,
        !.localServer = 0,
        !.authStateMap = {s \in @ : ~(s.createdAt < now - HourMs)}]

\* the event that reaches flow f while it waits is noted
Noted(a, f, r, by) ==
  IF flow.flows[f].st = "await"
    THEN [a EXCEPT !.flows[f].got = r, !.flows[f].by = by]
    ELSE a

\* the promise of openAuthWindow is settled, if it is not settled yet
Settled(a, f, st, r) ==
  IF a.flows[f].st = "await"
    THEN [a EXCEPT !.flows[f].st = st,
                   !.exchanges = IF st = "exchange"
                                   THEN @ \cup {[flow |-> f, state |-> r.state]}
                                   ELSE @]
    ELSE a

\* a will-redirect handler that resolves with the code of any redirect that
\* carries a code and a state
WillRedirectAnyState(f, r, closedFirst) ==
  LET result == handleCallback(r)
  IN IF result.error
       THEN Settled(cleanup(flow), f, "failed", r)
       ELSE IF closedFirst THEN Settled(cleanup(flow), f, "exchange", r)
            ELSE cleanup(Settled(flow, f, "exchange", r))

\* the will-redirect handler of flow f's window: cleanup(), then the promise is
\* resolved with the code if the redirect's state is the flow's, rejected
\* otherwise; closedFirst: the window's "closed" handler runs inside close()
WillRedirect(f, r, closedFirst) ==
  LET result == handleCallback(r)
  IN IF result.error
       THEN Settled(cleanup(flow), f, "failed", r)
     ELSE IF result.state = f
       THEN IF closedFirst THEN Settled(cleanup(flow), f, "exchange", r)
            ELSE cleanup(Settled(flow, f, "exchange", r))
     ELSE Settled(cleanup(flow), f, "failed", r)

\* initiateAuthFlow up to its first await that waits for an event: the state
\* is generated and stored in authStateMap and in oauth_auth_states, a new
\* server is made this.localServer and told to listen. With the port free
\* it listens and the window is opened; with the port bound its "error"
\* event has no handler, "listening" never comes, and the promise of
\* startCallbackServer stays pending
InitiateAuthFlow(f, sv) ==
  /\ flow.flows[f].st = "none"
  /\ \A g \in FlowIds : g < f => flow.flows[g].st # "none"
  /\ flow' = [flow EXCEPT
                !.authStateMap = @ \cup {[state |-> f, createdAt |-> now]},
                !.authStates = @ \cup {[state |-> f, createdAt |-> now]},
                !.localServer = f,
                !.bound = IF @ = 0 THEN f ELSE @,
                !.flows[f] = [NoFlow EXCEPT
                                !.st = IF flow.bound = 0 THEN "await" ELSE "listen",
                                !.server = sv],
                !.authWindow = IF flow.bound = 0 THEN f ELSE @,
                !.open = IF flow.bound = 0 THEN @ \cup {f} ELSE @]
  /\ UNCHANGED outsideFlow

\* the window of flow f is redirected to REDIRECT_URI
Redirect(f, r, closedFirst) ==
  /\ f \in flow.open
  /\ flow' = Noted(WillRedirect(f, r, closedFirst), f, r, "redirect")
  /\ UNCHANGED outsideFlow

\* the user closes the window of flow f
WindowClosed(f) ==
  /\ f \in flow.open
  /\ flow' = Noted(cleanup(CloseWindow(flow, f)), f, NoRedirect, "closed")
  /\ UNCHANGED outsideFlow

\* AUTH_TIMEOUT passes with no redirect
AuthTimeout(f) ==
  /\ f \in flow.open
  /\ flow.flows[f].st = "await"
  /\ flow' = Noted(Settled(cleanup(flow), f, "failed", NoRedirect), f, NoRedirect,
                   "timeout")
  /\ UNCHANGED outsideFlow

\* exchangeCodeForToken: the token endpoint answers the request made with the
\* code; a token is saved for the server of the flow, and initiateAuthFlow's
\* finally runs cleanup()
ExchangeCodeForToken(f, ok) ==
  /\ flow.flows[f].st = "exchange"
  /\ flow' = cleanup([flow EXCEPT
                        !.flows[f].st = IF ok THEN "done" ELSE "failed",
                        !.saved = IF ok THEN @ \cup {[server |-> flow.flows[f].server,
                                                      flow |-> f]}
                                  ELSE @])
  /\ UNCHANGED outsideFlow

InitFlow ==
  flow = [flows |-> [f \in FlowIds |-> NoFlow], authWindow |-> 0, open |-> {},
          bound |-> 0, localServer |-> 0, authStateMap |-> {}, authStates |-> {},
          exchanges |-> {}, saved |-> {}]

\* authorizations that are started while the port is free
NextFlow ==
  \/ \E f \in FlowIds, sv \in ServerIds : flow.bound = 0 /\ InitiateAuthFlow(f, sv)
  \/ \E f \in FlowIds, r \in Redirects, closedFirst \in BOOLEAN :
       Redirect(f, r, closedFirst)
  \/ \E f \in FlowIds : WindowClosed(f)
  \/ \E f \in FlowIds : AuthTimeout(f)
  \/ \E f \in FlowIds, ok \in BOOLEAN : ExchangeCodeForToken(f, ok)

\* authorizations started at any time, and the clock
NextAuthorize ==
  \/ \E f \in FlowIds, sv \in ServerIds : InitiateAuthFlow(f, sv)
  \/ \E f \in FlowIds, r \in Redirects, closedFirst \in BOOLEAN :
       Redirect(f, r, closedFirst)
  \/ \E f \in FlowIds : WindowClosed(f)
  \/ \E f \in FlowIds : AuthTimeout(f)
  \/ \E f \in FlowIds, ok \in BOOLEAN : ExchangeCodeForToken(f, ok)
  \/ ClockAdvance(HourMs + 1)

(***************************************************************************)
(* Key rotation: OAuthSecurityService.rotateEncryptionKeys over the token   *)
(* rows of ServerOAuthRepository                                            *)
(***************************************************************************)
MaxRotations == 2

\* a string held in a token field or in an encrypted column: its text and the
\* keys it is encrypted under, the outermost first
Value(layers, text) == [layers |-> layers, text |-> text]

\* "", and equally null and undefined (all falsy)
EmptyString == Value(<<>>, "")

\* the Error thrown by decryptOAuthData
Thrown == Value(<<>>, "Failed to decrypt OAuth data")

AccessTexts == {"", "at"}
RefreshTexts == {"", "rt"}

\* the order of the rows in SELECT * FROM server_oauth_tokens
RowOrder == <<"A", "B">>

\* what key rotation leaves alone
outsideKeys == <<toolVars, tokens, serverVars, last, load, oauthVars, rateVars, req,
                 flow,
                 bk,
                 mig,
                 audit>>

\* getEncryptionKey: the key of the key file, which exists
getEncryptionKey(keyFile) == keyFile

encryptOAuthData(k, x) ==
  IF x = EmptyString THEN EmptyString ELSE [x EXCEPT !.layers = <<k>> \o @]

\* AES-GCM opens only what was sealed under the same key
decryptOAuthData(k, x) ==
  IF x = EmptyString THEN EmptyString
  ELSE IF x.layers # <<>> /\ Head(x.layers) = k THEN [x EXCEPT !.layers = Tail(@)]
  ELSE Thrown

NoTokenRow == [present |-> FALSE, access_token |-> EmptyString,
               refresh_token |-> EmptyString]

\* saveToken: the row INSERT OR REPLACE leaves for the token's server
saveTokenRow(k, token) ==
  [present |-> TRUE,
   access_token |-> encryptOAuthData(k, token.accessToken),
   refresh_token |-> IF token.refreshToken # EmptyString
                       THEN encryptOAuthData(k, token.refreshToken) ELSE EmptyString]

mapRowToToken(k, sv, row) ==
  [serverId |-> sv,
   accessToken |-> decryptOAuthData(k, row.access_token),
   refreshToken |-> IF row.refresh_token # EmptyString
                      THEN decryptOAuthData(k, row.refresh_token) ELSE EmptyString]

\* getAllTokens: the rows, mapped in their order
getAllTokens(R, k) ==
  LET present == SelectSeq(RowOrder, LAMBDA sv : R[sv].present)
  IN [i \in 1..Len(present) |-> mapRowToToken(k, present[i], R[present[i]])]

\* the loop of rotateEncryptionKeys over allTokens: the rows it leaves, and
\* whether it was left by an exception; new EncryptionUtil() reads the key
\* file again
RECURSIVE ReEncrypt(_, _, _)
ReEncrypt(R, keyFile, allTokens) ==
  IF allTokens = <<>> THEN [rows |-> R, thrown |-> FALSE]
  ELSE LET token == Head(allTokens)
           decrypted == decryptOAuthData(getEncryptionKey(keyFile), token.accessToken)
           k == getEncryptionKey(keyFile)
           reEncrypted == encryptOAuthData(k, decrypted)
           refreshToken == IF token.refreshToken # EmptyString
                             THEN decryptOAuthData(k, token.refreshToken)
                             ELSE EmptyString
       IN IF token.accessToken = EmptyString THEN ReEncrypt(R, keyFile, Tail(allTokens))
          ELSE IF decrypted = Thrown \/ refreshToken = Thrown
            THEN [rows |-> R, thrown |-> TRUE]
          ELSE ReEncrypt([R EXCEPT ![token.serverId] =
                            saveTokenRow(k, [accessToken |-> reEncrypted,
                                             refreshToken |->
                                               encryptOAuthData(k, refreshToken)])],
                         keyFile, Tail(allTokens))

\* a token is stored for server sv (storeToken, exchangeCodeForToken)
StoreToken(sv, access, refresh) ==
  /\ keys' = [keys EXCEPT !.rows[sv] =
                saveTokenRow(getEncryptionKey(keys.keyFile),
                             [accessToken |-> Value(<<>>, access),
                              refreshToken |-> Value(<<>>, refresh)])]
  /\ UNCHANGED outsideKeys

DeleteToken(sv) ==
  /\ keys.rows[sv].present
  /\ keys' = [keys EXCEPT !.rows[sv] = NoTokenRow]
  /\ UNCHANGED outsideKeys

\* rotateEncryptionKeys: newKey is generated and not used again; an exception
\* anywhere ends the rotation in the catch, with the version as it was
RotateEncryptionKeys ==
  /\ keys.n < MaxRotations
  /\ LET allTokens == getAllTokens(keys.rows, getEncryptionKey(keys.keyFile))
         unreadable == \E i \in 1..Len(allTokens) :
                         allTokens[i].accessToken = Thrown
                           \/ allTokens[i].refreshToken = Thrown
         r == ReEncrypt(keys.rows, keys.keyFile, allTokens)
     IN keys' = IF unreadable
                  THEN [keys EXCEPT !.n = @ + 1, !.outcome = "failed"]
                ELSE IF r.thrown
                  THEN [keys EXCEPT !.n = @ + 1, !.outcome = "failed", !.rows = r.rows]
                ELSE [keys EXCEPT !.n = @ + 1, !.outcome = "rotated", !.rows = r.rows,
                                  !.keyVersion = @ + 1]
  /\ UNCHANGED outsideKeys

\* the default configuration of loadKeyRotationConfig, an empty token table
InitKeys ==
  keys = [keyFile |-> 1, keyVersion |-> 1, rows |-> [sv \in ServerIds |-> NoTokenRow],
          outcome |-> "none", n |-> 0]

NextKeys ==
  \/ \E sv \in ServerIds, access \in AccessTexts, refresh \in RefreshTexts :
       StoreToken(sv, access, refresh)
  \/ \E sv \in ServerIds : DeleteToken(sv)
  \/ RotateEncryptionKeys

(***************************************************************************)
(* Backup and restore: OAuthBackupService over ServerOAuthRepository        *)
(***************************************************************************)
\* the key of the key file
Key == 1

Secrets == {"", "cs"}
\* options.password: a passphrase, or none
Passwords == {"", "p", "q"}

NoConfigRow ==
  [present |-> FALSE, client_secret |-> EmptyString, use_pkce |-> FALSE,
   audience |-> "", additional_params |-> ""]

EmptyStore == [configs |-> [sv \in ServerIds |-> NoConfigRow],
               tokens |-> [sv \in ServerIds |-> NoTokenRow]]

NoFile == [present |-> FALSE, password |-> "", configs |-> <<>>, tokens |-> <<>>,
           source |-> EmptyStore]

\* the backups made in one run of the model
MaxBackups == 8

\* createAutomaticBackup: cleanupOldBackups(7)
KeepCount == 7

\* options.outputPath: none, or a path chosen in the save dialog
OutputPaths == {"", "oauth-backup.json", "my-auto-backup.json"}

\* outputPath.includes("auto-backup")
IncludesAutoBackup(outputPath) ==
  outputPath \in {"my-auto-backup.json", "auto-backup-ts.json"}

\* what backup and restore leave alone
outsideBackup == <<toolVars, tokens, serverVars, last, load, oauthVars, rateVars, req,
                   flow, keys,
                   mig,
                   audit>>

\* saveConfig -> encryptOAuthConfig: a truthy clientSecret is encrypted
\* usePKCE ? 1 : 0; a missing audience is NULL (""), and so are missing
\* additionalParams, others are kept as JSON
saveConfig(k, config) ==
  [present |-> TRUE,
   client_secret |-> IF config.clientSecret # EmptyString
                       THEN encryptOAuthData(k, config.clientSecret) ELSE EmptyString,
   use_pkce |-> config.usePKCE = "true",
   audience |-> config.audience,
   additional_params |-> config.additionalParams]

\* mapRowToConfig -> decryptOAuthConfig: a value that does not decrypt is kept
\* usePKCE is row.use_pkce === 1, never undefined
mapRowToConfig(k, sv, row) ==
  [serverId |-> sv,
   clientSecret |-> IF row.client_secret = EmptyString THEN EmptyString
                    ELSE IF decryptOAuthData(k, row.client_secret) = Thrown
                      THEN row.client_secret
                    ELSE decryptOAuthData(k, row.client_secret),
   usePKCE |-> IF row.use_pkce THEN "true" ELSE "false",
   audience |-> row.audience,
   additionalParams |-> row.additional_params]

getAllConfigs(store, k) ==
  LET present == SelectSeq(RowOrder, LAMBDA sv : store.configs[sv].present)
  IN [i \in 1..Len(present) |-> mapRowToConfig(k, present[i], store.configs[present[i]])]

\* the dataset as read back through the repository
ReadBack(store) ==
  [configs |-> [sv \in ServerIds |->
                  IF store.configs[sv].present
                    THEN mapRowToConfig(Key, sv, store.configs[sv])
                    ELSE [serverId |-> sv, clientSecret |-> Thrown, usePKCE |-> "",
                          audience |-> "", additionalParams |-> ""]],
   tokens |-> [sv \in ServerIds |->
                 IF store.tokens[sv].present
                   THEN mapRowToToken(Key, sv, store.tokens[sv])
                   ELSE [serverId |-> sv, accessToken |-> Thrown,
                         refreshToken |-> Thrown]]]

\* createBackup: the backup object written to the file, encrypted with the
\* password if options.encrypt and a password are given; thrown: an exception
\* left createBackup before the file was written
createBackup(store, includeTokens, encrypt, password) ==
  LET allConfigs == getAllConfigs(store, Key)
      allTokens == IF includeTokens THEN getAllTokens(store.tokens, Key) ELSE <<>>
      bconfigs == [i \in 1..Len(allConfigs) |->
                     [allConfigs[i] EXCEPT !.clientSecret =
                        IF encrypt THEN @ ELSE EmptyString]]
      btokens == [i \in 1..Len(allTokens) |->
                    [allTokens[i] EXCEPT
                       !.accessToken =
                         IF encrypt THEN decryptOAuthData(Key, allTokens[i].accessToken)
                         ELSE Value(<<>>, "[REDACTED]"),
                       !.refreshToken =
                         IF allTokens[i].refreshToken # EmptyString /\ encrypt
                           THEN decryptOAuthData(Key, allTokens[i].refreshToken)
                           ELSE EmptyString]]
  IN [thrown |-> \E i \in 1..Len(btokens) :
                   btokens[i].accessToken = Thrown \/ btokens[i].refreshToken = Thrown,
      file |-> [present |-> TRUE,
                password |-> IF encrypt THEN password ELSE "",
                configs |-> bconfigs, tokens |-> btokens,
                source |-> store]]

\* the entry createBackup pushes to backupHistory; id stands for the
\* timestamp too; manual records who asked for the backup
HistoryEntry(id, outputPath, manual) ==
  [id |-> id,
   automatic |-> (outputPath = "") \/ IncludesAutoBackup(outputPath),
   manual |-> manual]

\* backupHistory and the files after createBackup has written backup number id
Recorded(b, outputPath, manual) ==
  [b EXCEPT !.history = Append(@, HistoryEntry(Len(b.made) + 1, outputPath, manual)),
            !.disk = @ \cup {Len(b.made) + 1},
            !.made = Append(@, manual)]

\* cleanupOldBackups: the automatic entries beyond the keepCount most recent
\* ones are deleted from the disk and from backupHistory
cleanupOldBackups(b, keepCount) ==
  LET autoBackups == {b.history[i].id : i \in {j \in 1..Len(b.history) :
                                                 b.history[j].automatic}}
      toDelete == {id \in autoBackups :
                     Cardinality({other \in autoBackups : other > id}) >= keepCount}
  IN [b EXCEPT !.history = SelectSeq(@, LAMBDA h : h.id \notin toDelete),
               !.disk = @ \ toDelete]

\* the loops of restoreBackup over backup.configs and backup.tokens
RECURSIVE RestoreConfigs(_, _, _)
RestoreConfigs(store, configs, overwrite) ==
  IF configs = <<>> THEN store
  ELSE LET config == Head(configs)
       IN RestoreConfigs(
            IF overwrite \/ ~store.configs[config.serverId].present
              THEN [store EXCEPT !.configs[config.serverId] = saveConfig(Key, config)]
              ELSE store,
            Tail(configs), overwrite)

RECURSIVE RestoreTokens(_, _, _)
RestoreTokens(store, btokens, overwrite) ==
  IF btokens = <<>> THEN store
  ELSE LET token == Head(btokens)
           encryptedToken ==
             [accessToken |-> encryptOAuthData(Key, token.accessToken),
              refreshToken |-> IF token.refreshToken # EmptyString
                                 THEN encryptOAuthData(Key, token.refreshToken)
                                 ELSE EmptyString]
       IN RestoreTokens(
            IF overwrite \/ ~store.tokens[token.serverId].present
              THEN [store EXCEPT !.tokens[token.serverId] =
                      saveTokenRow(Key, encryptedToken)]
              ELSE store,
            Tail(btokens), overwrite)

\* restoreBackup: a file that is not plain JSON is decrypted with the password,
\* which throws for another password than the file's, and for none
restoreBackup(store, file, password, overwrite) ==
  IF file.password # "" /\ password # file.password
    THEN [thrown |-> TRUE, store |-> store]
    ELSE [thrown |-> FALSE,
          store |-> RestoreTokens(RestoreConfigs(store, file.configs, overwrite),
                                  file.tokens, overwrite)]

\* oauth:saveConfig, of a configuration with PKCE and no additional parameters
SaveConfigOf(sv, secret, audience) ==
  /\ bk' = [bk EXCEPT !.store.configs[sv] =
              saveConfig(Key, [serverId |-> sv, clientSecret |-> Value(<<>>, secret),
                               usePKCE |-> "true", audience |-> audience,
                               additionalParams |-> ""]),
                      !.outcome = "none"]
  /\ UNCHANGED outsideBackup

\* oauth:saveConfig, of a configuration without an audience
SaveConfig(sv, secret) == SaveConfigOf(sv, secret, "")

\* a token is stored for server sv
SaveTokenOf(sv, access, refresh) ==
  /\ bk' = [bk EXCEPT !.store.tokens[sv] =
              saveTokenRow(Key, [accessToken |-> Value(<<>>, access),
                                 refreshToken |-> Value(<<>>, refresh)]),
                      !.outcome = "none"]
  /\ UNCHANGED outsideBackup

\* createBackup, asked for by the user
CreateBackup(includeTokens, encrypt, password, outputPath) ==
  /\ Len(bk.made) < MaxBackups
  /\ LET b == createBackup(bk.store, includeTokens, encrypt, password)
     IN bk' = IF b.thrown THEN [bk EXCEPT !.outcome = "backup failed"]
              ELSE Recorded([bk EXCEPT !.file = b.file, !.outcome = "created"],
                            outputPath, TRUE)
  /\ UNCHANGED outsideBackup

\* createAutomaticBackup: an exception of createBackup is caught and logged
CreateAutomaticBackup ==
  /\ Len(bk.made) < MaxBackups
  /\ LET b == createBackup(bk.store, TRUE, TRUE, "")
     IN bk' = IF b.thrown THEN [bk EXCEPT !.outcome = "backup failed"]
              ELSE cleanupOldBackups(
                     Recorded([bk EXCEPT !.file = b.file, !.outcome = "created"],
                              "auto-backup-ts.json", FALSE),
                     KeepCount)
  /\ UNCHANGED outsideBackup

\* the data directory of a new installation, with the same key file
NewStore ==
  /\ bk.store # EmptyStore
  /\ bk' = [bk EXCEPT !.store = EmptyStore, !.outcome = "none"]
  /\ UNCHANGED outsideBackup

RestoreBackup(password, overwrite) ==
  /\ bk.file.present
  /\ LET r == restoreBackup(bk.store, bk.file, password, overwrite)
     IN bk' = IF r.thrown THEN [bk EXCEPT !.outcome = "rejected"]
              ELSE [bk EXCEPT !.store = r.store, !.outcome = "restored"]
  /\ UNCHANGED outsideBackup

InitBackup ==
  bk = [store |-> EmptyStore, file |-> NoFile, outcome |-> "none",
        history |-> <<>>, disk |-> {}, made |-> <<>>]

NextBackup ==
  \/ \E sv \in {"A"}, secret \in Secrets : SaveConfig(sv, secret)
  \/ \E sv \in {"A"}, refresh \in RefreshTexts : SaveTokenOf(sv, "at", refresh)
  \/ \E includeTokens, encrypt \in BOOLEAN, password \in Passwords :
       CreateBackup(includeTokens, encrypt, password, "oauth-backup.json")
  \/ NewStore
  \/ \E password \in Passwords, overwrite \in BOOLEAN : RestoreBackup(password, overwrite)

\* the backups of a long-running installation: the daily automatic backup,
\* oauth:createBackup with the path of its save dialog, exportConfigurations
NextPrune ==
  \/ CreateAutomaticBackup
  \/ \E outputPath \in OutputPaths \ {""} : CreateBackup(TRUE, TRUE, "", outputPath)
  \/ CreateBackup(FALSE, FALSE, "", "")
  \/ \E sv \in {"A"} : SaveTokenOf(sv, "at", "rt")
  \/ NewStore

(***************************************************************************)
(* Migration of the OAuth dataset: OAuthMigrationService                   *)
(***************************************************************************)
\* the calls of migrate and rollback in one run of the model
MaxRuns == 3

\* this.migrations: the versions in order, and whether a reverse is defined
migrations ==
  <<[version |-> "1.0.0", rollback |-> FALSE],
    [version |-> "1.1.0", rollback |-> TRUE],
    [version |-> "1.2.0", rollback |-> TRUE],
    [version |-> "2.0.0", rollback |-> TRUE]>>

\* this.currentVersion
currentVersion == "2.0.0"

\* targetVersion: none, or a version
TargetVersions == {"", "1.1.0", "1.2.0", "2.0.0"}

\* migrations.findIndex by version, from 1; 0 for a version not in the list
findIndex(version) ==
  IF \E i \in 1..Len(migrations) : migrations[i].version = version
    THEN CHOOSE i \in 1..Len(migrations) : migrations[i].version = version
    ELSE 0

\* the forward step of a version on one config: 1.1.0 gives usePKCE where it
\* is undefined, 1.2.0 gives additionalParams {} where they are falsy and
\* leaves the audience; the timestamps of 2.0.0 are left out
migrateConfig(version, config) ==
  CASE version = "1.1.0" -> [config EXCEPT !.usePKCE = IF @ = "" THEN "true" ELSE @]
    [] version = "1.2.0" ->
         [config EXCEPT !.additionalParams = IF @ = "" THEN "{}" ELSE @]
    [] OTHER -> config

\* the reverse step of a version on one config: the fields are removed
rollbackConfig(version, config) ==
  CASE version = "1.1.0" -> [config EXCEPT !.usePKCE = ""]
    [] version = "1.2.0" -> [config EXCEPT !.audience = "", !.additionalParams = ""]
    [] OTHER -> config

\* migration.migrate(data) and migration.rollback(data); the token fields
\* of 2.0.0 (lastUsed, refreshCount) are not among the modelled ones
migrateData(version, data) ==
  [data EXCEPT !.configs = [i \in 1..Len(@) |-> migrateConfig(version, @[i])]]

rollbackData(version, data) ==
  [data EXCEPT !.configs = [i \in 1..Len(@) |-> rollbackConfig(version, @[i])]]

\* getPendingMigrations: the migrations after the current version, all of
\* them for an unknown version
getPendingMigrations(state) ==
  SubSeq(migrations, findIndex(state.currentVersion) + 1, Len(migrations))

\* the order of the version strings is the order of the list
migrationsToApply(state, targetVersion) ==
  IF targetVersion # ""
    THEN SelectSeq(getPendingMigrations(state),
                   LAMBDA m : findIndex(m.version) <= findIndex(targetVersion))
    ELSE getPendingMigrations(state)

\* the loop of migrate: the migration state and the data after the
\* migrations of todo are applied; the snapshot is pushed under the version
\* of the migration about to be applied
RECURSIVE Apply(_, _, _)
Apply(state, data, todo) ==
  IF todo = <<>> THEN [state |-> state, data |-> data]
  ELSE Apply([state EXCEPT
                !.rollbackHistory = Append(@, [version |-> Head(todo).version,
                                               data |-> data]),
                !.currentVersion = Head(todo).version,
                !.appliedMigrations = Append(@, Head(todo).version)],
             migrateData(Head(todo).version, data),
             Tail(todo))

\* the data read through the repository
CurrentData(store) ==
  [configs |-> getAllConfigs(store, Key), tokens |-> getAllTokens(store.tokens, Key)]

\* "clear existing data" deletes by server id with the row ids, which
\* deletes nothing; then every config and token of data is saved
RECURSIVE SaveData(_, _)
SaveData(store, data) ==
  IF data.configs # <<>>
    THEN SaveData([store EXCEPT !.configs[Head(data.configs).serverId] =
                     saveConfig(Key, Head(data.configs))],
                  [data EXCEPT !.configs = Tail(@)])
  ELSE IF data.tokens # <<>>
    THEN SaveData([store EXCEPT !.tokens[Head(data.tokens).serverId] =
                     saveTokenRow(Key, Head(data.tokens))],
                  [data EXCEPT !.tokens = Tail(@)])
  ELSE store

Reverse(q) == [i \in 1..Len(q) |-> q[Len(q) + 1 - i]]

RECURSIVE RollbackAll(_, _)
RollbackAll(data, todo) ==
  IF todo = <<>> THEN data
  ELSE RollbackAll(IF Head(todo).rollback THEN rollbackData(Head(todo).version, data)
                   ELSE data,
                   Tail(todo))

\* rollback: rollbackHistory is reversed in place, the snapshot recorded
\* under the target version is taken, the reverses of the migrations after
\* the target up to the current version are applied to it and the result is
\* saved; without a snapshot, or with an unknown version, rollback fails
rollback(state, store, targetVersion) ==
  LET reversed == Reverse(state.rollbackHistory)
      points == SelectSeq(reversed, LAMBDA r : r.version = targetVersion)
      currentIndex == findIndex(state.currentVersion)
      targetIndex == findIndex(targetVersion)
      migrationsToRollback == Reverse(SubSeq(migrations, targetIndex + 1, currentIndex))
  IN IF points = <<>> \/ currentIndex = 0 \/ targetIndex = 0
       THEN [success |-> FALSE, store |-> store,
             state |-> [state EXCEPT !.rollbackHistory = reversed]]
       ELSE [success |-> TRUE,
             store |-> SaveData(store, RollbackAll(points[1].data, migrationsToRollback)),
             state |-> [state EXCEPT
                          !.rollbackHistory = reversed,
                          !.currentVersion = targetVersion,
                          !.appliedMigrations =
                            SelectSeq(@, LAMBDA v : findIndex(v) <= targetIndex)]]

\* loadMigrationState: the default state; log records the calls made
DefaultState ==
  [currentVersion |-> "1.0.0", appliedMigrations |-> <<>>, rollbackHistory |-> <<>>,
   success |-> FALSE, runs |-> 0, log |-> <<>>]

\* the record of one call: the store before and after, the result, the
\* migration state after
Logged(state, op, targetVersion, success, before, after) ==
  [state EXCEPT
     !.success = success,
     !.runs = @ + 1,
     !.log = Append(@, [op |-> op, target |-> targetVersion, success |-> success,
                        before |-> before, after |-> after,
                        fromVersion |-> mig.currentVersion,
                        fromApplied |-> mig.appliedMigrations,
                        currentVersion |-> state.currentVersion,
                        appliedMigrations |-> state.appliedMigrations])]

\* what migrate and rollback leave alone
outsideMigrate == <<toolVars, tokens, serverVars, last, load, oauthVars, rateVars, req,
                    flow, keys,
                    audit>>

\* migrate: the backup before the migration, the pending migrations in
\* order, the dataset saved again, the final version; an exception of the
\* backup ends migrate with success false
Migrate(targetVersion) ==
  /\ Len(bk.made) < MaxBackups
  /\ mig.runs < MaxRuns
  /\ LET b == createBackup(bk.store, TRUE, TRUE, "")
         applied == Apply(mig, CurrentData(bk.store),
                          migrationsToApply(mig, targetVersion))
         toVersion == IF targetVersion # "" THEN targetVersion ELSE currentVersion
         saved == SaveData(bk.store, applied.data)
     IN IF b.thrown
          THEN /\ bk' = [bk EXCEPT !.outcome = "backup failed"]
               /\ mig' = Logged(mig, "migrate", targetVersion, FALSE, bk.store, bk.store)
          ELSE /\ bk' = [Recorded([bk EXCEPT !.file = b.file, !.outcome = "created"],
                                  "pre-migration.json", TRUE)
                          EXCEPT !.store = saved]
               /\ mig' = Logged([applied.state EXCEPT !.currentVersion = toVersion],
                                "migrate", targetVersion, TRUE, bk.store, saved)
  /\ UNCHANGED outsideMigrate

\* migrate, when the forward step of one of the migrations to apply throws:
\* the migrations before it are applied and recorded, the snapshot of the
\* failing one is pushed, rollback(fromVersion) is attempted, and migrate
\* ends with success false without saving its data
MigrateStepFails(targetVersion, failing) ==
  /\ Len(bk.made) < MaxBackups
  /\ mig.runs < MaxRuns
  /\ LET b == createBackup(bk.store, TRUE, TRUE, "")
         todo == migrationsToApply(mig, targetVersion)
         at == CHOOSE i \in 1..Len(todo) : todo[i].version = failing
         applied == Apply(mig, CurrentData(bk.store), SubSeq(todo, 1, at - 1))
         pushed == [applied.state EXCEPT
                      !.rollbackHistory = Append(@, [version |-> failing,
                                                     data |-> applied.data])]
         back == rollback(pushed, bk.store, mig.currentVersion)
     IN /\ ~b.thrown
        /\ \E i \in 1..Len(todo) : todo[i].version = failing
        /\ bk' = [Recorded([bk EXCEPT !.file = b.file, !.outcome = "created"],
                           "pre-migration.json", TRUE)
                   EXCEPT !.store = back.store]
        /\ mig' = Logged(back.state, "migrate failed", targetVersion, FALSE,
                         bk.store, back.store)
  /\ UNCHANGED outsideMigrate

\* rollback(targetVersion), asked for by the user
Rollback(targetVersion) ==
  /\ mig.runs < MaxRuns
  /\ LET back == rollback(mig, bk.store, targetVersion)
     IN /\ bk' = [bk EXCEPT !.store = back.store, !.outcome = "none"]
        /\ mig' = Logged(back.state, "rollback", targetVersion, back.success,
                         bk.store, back.store)
  /\ UNCHANGED outsideMigrate

InitMigration == mig = DefaultState

NextMigration ==
  \/ \E targetVersion \in TargetVersions : Migrate(targetVersion)
  \/ \E failing \in {"1.2.0", "2.0.0"} : MigrateStepFails("", failing)
  \/ \E targetVersion \in {"1.0.0", "1.1.0", "1.2.0"} : Rollback(targetVersion)
  \/ \E sv \in {"A"}, audience \in {"", "aud"} : SaveConfigOf(sv, "cs", audience)
  \/ \E sv \in {"A"} : SaveTokenOf(sv, "at", "rt")

(***************************************************************************)
(* OAuthSecurityService: the audit log                                     *)
(***************************************************************************)

\* the audit events are numbered in the order they are logged, which is the
\* order of their lines in oauth-audit.log: the file holds the lines 1..file
\* and the array auditLogs holds the entries first..last (none if
\* last < first)

\* the lines of the file in one run of the model
MaxEvents == 10600

\* logSecurityEvent: auditLogs.length > 10000
RingLimit == 10000

\* logSecurityEvent: auditLogs.slice(-5000)
KeepAfterTrim == 5000

\* loadAuditLogs: lines.slice(-1000)
LoadLimit == 1000

\* the lines oauth-audit.log holds when the service is constructed
PriorLines == {0, 1500}

\* auditLogs.length
Length(a) == IF a.last < a.first THEN 0 ELSE a.last - a.first + 1

\* array.slice(-n)
SliceLast(a, n) == IF Length(a) > n THEN [a EXCEPT !.first = a.last - n + 1] ELSE a

\* loadAuditLogs: the last 1000 lines of the file become auditLogs
loadAuditLogs(a) ==
  SliceLast([a EXCEPT !.first = 1, !.last = a.file], LoadLimit)

\* appendAuditLog: the line of the entry is appended to the file
appendAuditLog(a) == [a EXCEPT !.file = @ + 1]

\* logSecurityEvent: the entry is pushed, its line appended, and when the
\* array is longer than 10000 its last 5000 entries are kept
logSecurityEvent(a) ==
  LET pushed == appendAuditLog([a EXCEPT !.first = IF Length(a) = 0 THEN a.file + 1 ELSE @,
                                         !.last = a.file + 1])
  IN IF Length(pushed) > RingLimit THEN SliceLast(pushed, KeepAfterTrim) ELSE pushed

\* what the audit log leaves alone
outsideAudit == <<toolVars, tokens, serverVars, last, load, oauthVars, rateVars, req,
                  flow, keys, bk, mig>>

\* getInstance() constructs the service: the audit log of earlier runs is read
Construct(prior) ==
  /\ ~audit.constructed
  /\ audit' = loadAuditLogs([audit EXCEPT !.constructed = TRUE, !.file = prior])
  /\ UNCHANGED outsideAudit

\* a security event is logged
LogSecurityEvent ==
  /\ audit.constructed
  /\ audit.file < MaxEvents
  /\ audit' = logSecurityEvent(audit)
  /\ UNCHANGED outsideAudit

InitAudit == audit = [constructed |-> FALSE, first |-> 1, last |-> 0, file |-> 0]

NextAudit ==
  \/ \E prior \in PriorLines : Construct(prior)
  \/ LogSecurityEvent

\* the services around the token manager, before their first use
InitExt ==
  /\ InitFetch
  /\ InitFlow
  /\ InitKeys
  /\ InitBackup
  /\ InitMigration
  /\ InitAudit

(***************************************************************************)
(* Specifications                                                          *)
(***************************************************************************)
Init ==
  /\ InitTools
  /\ tokens = InitTokens
  /\ InitServers
  /\ InitLifecycle
  /\ load = Loaded
  /\ InitOAuth
  /\ InitRateLimit
  /\ InitExt

vars == <<toolVars, tokens, serverVars, last, load, oauthVars, rateVars, extVars>>

SpecTools == Init /\ [][NextTools]_vars

SpecDiscovery == Init /\ [][NextDiscovery]_vars

SpecServers == Init /\ [][NextServers]_vars

SpecOAuth == Init /\ [][NextOAuth]_vars

SpecRevoke == Init /\ [][NextRevoke]_vars

SpecRateLimit == Init /\ [][NextRateLimit]_vars

SpecRefreshPaths == Init /\ [][NextRefreshPaths]_vars

SpecFetch == Init /\ [][NextFetch]_vars

SpecFlow == Init /\ [][NextFlow]_vars

SpecAuthorize == Init /\ [][NextAuthorize]_vars

\* the timer of openAuthWindow fires and the token endpoint answers
SpecAuthorizeFair ==
  /\ SpecAuthorize
  /\ \A f \in FlowIds : WF_vars(AuthTimeout(f))
  /\ \A f \in FlowIds : WF_vars(\E ok \in BOOLEAN : ExchangeCodeForToken(f, ok))

SpecKeys == Init /\ [][NextKeys]_vars

SpecBackup == Init /\ [][NextBackup]_vars
SpecPrune == Init /\ [][NextPrune]_vars

SpecMigration == Init /\ [][NextMigration]_vars

SpecAudit == Init /\ [][NextAudit]_vars

SpecLifecycle == Init /\ [][NextLifecycle]_vars

SpecWorkspace == Init /\ [][NextWorkspace]_vars

\* the state in which initializeAsync begins
Startup ==
  /\ InitTools
  /\ tokens = InitTokens
  /\ InitStartup
  /\ InitLifecycle
  /\ InitOAuth
  /\ InitRateLimit
  /\ InitExt

SpecStartup == Startup /\ [][NextStartup]_vars

(***************************************************************************)
(* Properties of the tool subsystem                                        *)
(***************************************************************************)
\* the resolution rule, stated over the stored rows alone
ClientRows(s, t, c) == {r \in rows : r.serverId = s /\ r.toolName = t /\ r.clientId = c}

GlobalRows(s, t) == {r \in rows : r.serverId = s /\ r.toolName = t /\ r.clientId = NULL}

Resolve(s, t, c) ==
  IF c # UNDEF /\ ClientRows(s, t, c) # {} THEN CHOOSE r \in ClientRows(s, t, c) : TRUE
  ELSE IF GlobalRows(s, t) # {} THEN CHOOSE r \in GlobalRows(s, t) : TRUE
  ELSE NoRow

StoredEnabled(s, t, c) == IF Resolve(s, t, c) = NoRow THEN TRUE ELSE Resolve(s, t, c).enabled

\* C1: a tool call is forwarded only if the presented token is valid, its
\* serverIds contains the target server and the preference resolved from the
\* store for (server, tool, token's clientId) is enabled; isToolEnabled never
\* answers true while the resolved stored preference is disabled.
C1_CallAllowedOnlyIfEnabled ==
  /\ \A id \in PresentedIds, s \in ServerIds, t \in ToolNames :
       GateResult(id, s, t) = "Forward" =>
         /\ validate(id)
         /\ Contains(TokenById(id).serverIds, s)
         /\ StoredEnabled(s, t, TokenById(id).clientId)
  /\ \A s \in PrefServers, t \in ToolNames, c \in Scopes :
       isToolEnabled(rows, cache, s, t, c) => StoredEnabled(s, t, c)

\* a state in which the gate forwards a call to a tool whose stored resolved
\* preference is disabled
C1_ForwardsDisabledTool ==
  \E s \in PrefServers, t \in ToolNames :
    /\ GateResult("T1", s, t) = "Forward"
    /\ ~StoredEnabled(s, t, "c")

\* C6: a preference query for (server, tool, client) returns the client-specific
\* row if one exists, otherwise the global row if one exists, otherwise nothing,
\* which stands for the default enabled = true.
C6_QueryFollowsResolutionRule ==
  \A s \in PrefServers, t \in ToolNames, c \in Scopes :
    getToolPreference(rows, cache, s, t, c) = Resolve(s, t, c)

\* the repository's own query follows the rule in every state of the store
C6_RepositoryFollowsRule ==
  \A s \in PrefServers, t \in ToolNames, c \in Scopes :
    getServerTool(rows, s, t, c) = Resolve(s, t, c)

\* a state in which the service's query returns a row although no row of the
\* tool is stored
C6_QueryReturnsDeletedRow ==
  \E s \in PrefServers, t \in ToolNames, c \in Scopes :
    /\ Resolve(s, t, c) = NoRow
    /\ getToolPreference(rows, cache, s, t, c) # NoRow

\* C7: updateToolPreference with clientId = c on a tool that so far has only a
\* global row makes resolution for (server, tool, c) yield the written
\* enabled/customName/customDescription, and leaves the global row unchanged.
C7_ClientUpdateOverridesGlobal ==
  [][\A s \in PrefServers, p \in PrefInputs :
       (/\ UpdateToolPreference(s, p)
        /\ p.clientId # UNDEF
        /\ GlobalRows(s, p.toolName) # {}
        /\ ClientRows(s, p.toolName, p.clientId) = {})
       => /\ Resolve(s, p.toolName, p.clientId)'.enabled = p.enabled
          /\ Resolve(s, p.toolName, p.clientId)'.customName = OrNull(p.customName)
          /\ Resolve(s, p.toolName, p.clientId)'.customDescription = OrNull(p.customDescription)
          /\ Resolve(s, p.toolName, p.clientId)'.clientId = p.clientId
          /\ GlobalRows(s, p.toolName)' = GlobalRows(s, p.toolName)]_vars

\* C8: every write to a (serverId, clientId?) scope leaves the service's cache
\* such that a read of that scope through the service returns the written state.
Fresh(s, c) ==
  \A t \in ToolNames :
    getToolPreference(rows, cache, s, t, c) = getServerTool(rows, s, t, c)

C8_WriteInvalidatesScope ==
  [][\A s \in PrefServers :
       /\ \A p \in PrefInputs : UpdateToolPreference(s, p) => Fresh(s, p.clientId)'
       /\ \A c \in Scopes, pc \in Scopes :
            \A prefs \in BulkInputs(pc) :
              BulkUpdateToolPreferences(s, prefs, c) => Fresh(s, c)'
       /\ (EnableAllTools(s) \/ DisableAllTools(s) \/ ResetToolPreferences(s))
            => \A c \in Scopes : Fresh(s, c)'
       /\ \A tools \in AnnouncedLists :
            (DiscoverTools(s, tools) /\ rows' # rows) => Fresh(s, UNDEF)']_vars

\* what the list-tools filter is to return, stated over the stored rows: the
\* upstream tools whose resolved preference is enabled, in upstream order, named
\* and described by the override where one is set
Shown(tool, s, c) ==
  LET r == Resolve(s, tool.name, c)
  IN [name |-> IF r # NoRow /\ r.customName # NULL THEN r.customName ELSE tool.name,
      description |-> IF r # NoRow /\ r.customDescription # NULL
                        THEN r.customDescription ELSE tool.description]

ExpectedList(upstream, s, c) ==
  LET kept == SelectSeq(upstream, LAMBDA tool : StoredEnabled(s, tool.name, c))
  IN [i \in 1..Len(kept) |-> Shown(kept[i], s, c)]

NameAndDescription(list) ==
  [i \in 1..Len(list) |-> [name |-> list[i].name, description |-> list[i].description]]

\* the preferences of scenario S1: t2 disabled globally; for client c, t3
\* disabled and t1 renamed to alpha
S1Prefs ==
  /\ \E r \in GlobalRows("A", "t2") : ~r.enabled
  /\ ClientRows("A", "t2", "c") = {}
  /\ \E r \in ClientRows("A", "t3", "c") : ~r.enabled
  /\ \E r \in ClientRows("A", "t1", "c") : r.enabled /\ r.customName = "alpha"

S1Listed == out.op = "filter" /\ out.serverId = "A" /\ out.clientId = "c" /\ S1Prefs

\* C9: for an upstream tool list and a client c, filterTools returns exactly the
\* tools whose resolved preference for c is enabled, in upstream order, each
\* under its customName/customDescription where set; in S1 the list for A is the
\* single tool named alpha (its elements carry no field for the original name).
C9_FilterReturnsEnabledTools ==
  /\ \A s \in PrefServers, c \in Scopes :
       \A upstream \in AnnouncedLists \cup {Upstream(s)} :
         NameAndDescription(filterTools(rows, upstream, s, c))
           = ExpectedList(upstream, s, c)
  /\ out.op = "filter"
       => NameAndDescription(out.result)
            = ExpectedList(Upstream(out.serverId), out.serverId, out.clientId)
  /\ S1Listed =>
       /\ Len(out.result) = 1
       /\ out.result[1].name = "alpha"
       /\ out.result[1].customName = "alpha"
       /\ out.result[1].inputSchema = Upstream("A")[1].inputSchema
       /\ DOMAIN out.result[1]
            = {"name", "description", "inputSchema", "enabled", "customName",
               "customDescription", "serverName", "serverId"}

\* S1 has been set up and the tools of A have been listed for client c
C9_S1ListedAlpha == S1Listed /\ NameAndDescription(out.result)
                                  = <<[name |-> "alpha", description |-> "d1"]>>

\* C9 as worded: in S1 the listed element is {name: alpha, originalName: t1}
C9_ListCarriesOriginalName ==
  /\ C9_FilterReturnsEnabledTools
  /\ S1Listed =>
       \A i \in 1..Len(out.result) :
         /\ "originalName" \in DOMAIN out.result[i]
         /\ out.result[i].originalName = "t1"

(***************************************************************************)
(* Properties of the Server Manager                                        *)
(***************************************************************************)
\* C2: a server whose status is running has exactly one live client in the
\* connection pool, and a server whose status is stopped or error has none.
C2_StatusMatchesPool ==
  \A id \in ManagedIds :
    /\ servers[id] = "running" => (clients[id] # 0 /\ clients[id] \in live)
    /\ servers[id] \in {"stopped", "error"} => clients[id] = 0

\* a server in status error whose live client is still in the pool
C2_ErrorWithLiveClient ==
  \E id \in ManagedIds :
    servers[id] = "error" /\ clients[id] # 0 /\ clients[id] \in live

\* C3: once no start is still connecting, the status, the pool entry and the
\* server record of every server are those of the sequential execution of the
\* start/stop/remove requests in request order.
C3_SerializedInRequestOrder ==
  starts = {} =>
    \A id \in ManagedIds :
      /\ servers[id] = seq.status[id]
      /\ (clients[id] # 0) = seq.pool[id]
      /\ (id \in dbServers) = seq.record[id]

\* a stop requested while a start was connecting has been overtaken: the server
\* runs although the last request, in order, stopped it
C3_StopOvertakenByStart ==
  \E id \in ManagedIds :
    /\ starts = {}
    /\ servers[id] = "running" /\ clients[id] # 0
    /\ seq.status[id] = "stopped" /\ ~seq.pool[id]

\* C10: removeServer(A) removes A from the serverIds of every token, leaves the
\* other ids and the other tokens as they were, and strips the tokens exactly
\* when it deletes the server record.
C10_RemoveStripsTokensWithRecord ==
  [][\A id \in ManagedIds, logThrows \in BOOLEAN, failAt \in TokenFailures :
       RemoveServer(id, logThrows, failAt) =>
         /\ \A tk \in tokens :
              \E tk2 \in tokens' :
                /\ tk2.id = tk.id /\ tk2.clientId = tk.clientId
                /\ tk2.serverIds \in {tk.serverIds, Without(tk.serverIds, id)}
         /\ Cardinality(tokens') = Cardinality(tokens)
         /\ (id \notin dbServers')
              <=> (\A tk2 \in tokens' : ~Contains(tk2.serverIds, id))]_vars

\* the token that granted {A, B} grants [B] and the record of A is deleted
C10_TokenLeftWithB ==
  /\ "A" \notin dbServers
  /\ \E tk \in tokens : tk.id = "T2" /\ tk.serverIds = <<"B">>
  /\ \A tk \in tokens : ~Contains(tk.serverIds, "A")

\* the record of A is deleted and a token still grants A
C10_RecordDeletedTokenKeepsServer ==
  /\ "A" \notin dbServers
  /\ \E tk \in tokens : Contains(tk.serverIds, "A")

\* C11: remove is terminal: a server whose record removeServer has deleted has
\* no entry in the servers map and no client in the connection pool, in every
\* state from then on, whatever completes or is requested later.
C11_RemoveIsTerminal ==
  \A id \in ManagedIds :
    id \notin dbServers => (servers[id] = "absent" /\ clients[id] = 0)

\* a removed server has a live client in the pool although no start or stop of
\* it is still running
C11_ClientBackAfterRemove ==
  \E id \in ManagedIds :
    /\ id \notin dbServers /\ servers[id] = "absent"
    /\ starts = {}
    /\ clients[id] # 0 /\ clients[id] \in live

\* C12: startServer on a running server and stopServer on a stopped server
\* change nothing: no connection attempt begins, no transport opens, and the
\* status, the pool and the live clients are those a single application left.
C12_StartAndStopIdempotent ==
  [][\A id \in ServerIds :
       /\ \A ok \in BOOLEAN :
            (servers[id] = "running" /\ clients[id] # 0 /\ StartServer(id, ok))
              => UNCHANGED <<servers, clients, live, starts, nStarts, dbServers>>
       /\ \A logThrows \in BOOLEAN :
            (servers[id] = "stopped" /\ clients[id] = 0 /\ StopServer(id, logThrows))
              => UNCHANGED <<servers, clients, live, starts, nStarts, dbServers>>]_vars

\* the last request for A was a start that found A running and the last
\* request for B was a stop that found B stopped; A still runs with the same
\* single client and B is still stopped without one
C12_StartedRunningStoppedStopped ==
  /\ last["A"].op = "start" /\ last["A"].status = "running" /\ last["A"].client # 0
  /\ servers["A"] = "running" /\ clients["A"] = last["A"].client
  /\ live = {clients["A"]}
  /\ last["B"].op = "stop" /\ last["B"].status = "stopped" /\ last["B"].client = 0
  /\ servers["B"] = "stopped" /\ clients["B"] = 0
  /\ starts = {}

\* C14: once clearAllServers has emptied the servers map, the connection pool
\* holds no client of the old workspace, and when no start is connecting any
\* more every transport of the old workspace is closed.
C14_ClearAllLeavesNothing ==
  (\A id \in ManagedIds : servers[id] = "absent") =>
    /\ \A id \in ManagedIds : clients[id] = 0
    /\ starts = {} => live = {}

\* after the switch the pool holds a live client of a server of the old
\* workspace
C14_ClientAfterClearAll ==
  /\ \A id \in ManagedIds : servers[id] = "absent"
  /\ starts = {}
  /\ \E id \in ManagedIds : clients[id] # 0 /\ clients[id] \in live

\* C13: when the startup loading has ended, every stored server is in the
\* servers map and a start has been made for every autoStart server that is
\* not disabled, whether or not the start of another server failed.
C13_StartupLoadsAndStartsAll ==
  load.st \in {"done", "aborted"} =>
    \A id \in ManagedIds :
      /\ servers[id] # "absent"
      /\ (id \in load.autoStart /\ id \notin DisabledIds)
           => servers[id] \in {"running", "error"}

\* the loading has ended after a failed start and a stored autoStart server
\* is neither in the servers map nor started
C13_StartupAborted ==
  /\ load.st = "aborted"
  /\ \E id \in ManagedIds : servers[id] = "error"
  /\ \E id \in load.autoStart \ DisabledIds :
       servers[id] = "absent" /\ clients[id] = 0

(***************************************************************************)
(* Properties of the OAuth token manager                                   *)
(***************************************************************************)
\* C4: at most one token refresh of the server is in flight at any time,
\* whichever entry point requested it, and while one is in flight it is the one
\* registered, so that a requester arriving attaches to it.
C4_AtMostOneRefreshInFlight ==
  /\ Cardinality(ops) <= 1
  /\ \A op \in ops : refreshPromises = op.n

\* two refreshes of the server are in flight together
C4_TwoRefreshesInFlight == Cardinality(ops) >= 2

GroupDone == group # {} /\ \A c \in group : calls[c].st = "done"

\* C5: for overlapping getAccessToken calls issued inside the refresh window,
\* exactly one exchange with the token endpoint occurs and every caller
\* receives the same new access token.
C5_OneExchangeSameNewToken ==
  (GroupDone /\ groupWindow) =>
    /\ httpCount = 1
    /\ \E tk \in TokenIds :
         \A c \in group : calls[c].result = <<"token", tk>> /\ tk # calls[c].old

\* two overlapping calls issued inside the refresh window have returned
\* different new access tokens
C5_CallersGotDifferentTokens ==
  /\ GroupDone /\ groupWindow
  /\ \E c \in group, d \in group :
       /\ calls[c].result[1] = "token" /\ calls[d].result[1] = "token"
       /\ calls[c].result[2] # calls[d].result[2]
       /\ calls[c].result[2] # calls[c].old
       /\ calls[d].result[2] # calls[d].old

\* C15: a getAccessToken call never returns an access token that is expired
\* when it returns; a call that finds the stored token expired returns nothing
\* before a refresh has been attempted, and when the refresh it attempted or
\* joined fails it does not return the expired token.
C15_NoExpiredTokenReturned ==
  [][\A c \in Callers :
       /\ (calls[c].st # "done" /\ calls'[c].st = "done"
             /\ calls'[c].result[1] = "token")
            => phase'[calls'[c].result[2]] # "expired"
       /\ (calls[c].st = "idle" /\ calls'[c].st # "idle"
             /\ stored # 0 /\ isTokenExpired(stored))
            => (calls'[c].st = "waiting" /\ \E op \in ops' : op.n = calls'[c].on)
       /\ (calls[c].st = "waiting" /\ calls'[c].st = "done"
             /\ isTokenExpired(calls[c].old) /\ calls'[c].result[1] = "token")
            => calls'[c].result[2] # calls[c].old]_vars

\* a call that found the stored token expired has returned without a token
\* after its refresh failed, and another has returned the new token of a
\* refresh that succeeded
C15_ExpiredThenNullAndNew ==
  \E c \in Callers, d \in Callers :
    /\ calls[c].st = "done" /\ calls[c].starter /\ calls[c].result = <<"null">>
    /\ phase[calls[c].old] = "expired"
    /\ calls[d].st = "done" /\ calls[d].result[1] = "token"
    /\ calls[d].old # 0 /\ calls[d].result[2] # calls[d].old
    /\ phase[calls[d].old] = "expired"

\* C16: when a refresh has failed for good (the last attempt has failed), no
\* token row of the server exists any more.
C16_TerminalFailureDeletesToken ==
  [][\A op \in ops :
       (op.attempt = MAX_REFRESH_RETRIES /\ HttpResponse(op, FALSE)) => stored' = 0]_vars

\* all attempts of a refresh have failed, its caller has got nothing, and the
\* expired token is still stored
C16_TokenKeptAfterFailure ==
  /\ ops = {}
  /\ stored # 0 /\ phase[stored] = "expired"
  /\ \E c \in Callers :
       calls[c].st = "done" /\ calls[c].starter /\ calls[c].result = <<"null">>

\* C17: once a revokeToken call has completed, the server has no token row and
\* no refresh timer is armed for it, in every state from then on.
C17_RevokedStaysRevoked == revoke = "done" => (stored = 0 /\ timer = 0)

\* a revocation has completed, and the server has a token row again with a
\* refresh timer armed for it
C17_TokenBackAfterRevoke == revoke = "done" /\ stored # 0 /\ timer = stored

\* the revocation endpoint failed, or none is configured, and the row is
\* deleted with no timer armed
C17_RevokedBestEffort == revoke = "done" /\ stored = 0 /\ timer = 0 /\ ops = {}

C19_RefreshIncrementsCount ==
  [][\A op \in ops :
       (stored # 0 /\ HttpResponse(op, TRUE)) => refreshCount' = refreshCount + 1]_vars

\* a refreshed token is stored and its refresh_count is 0
C19_RefreshedTokenCountsZero == issued > 1 /\ stored = issued /\ refreshCount = 0

(***************************************************************************)
(* Properties of the rate limiter                                          *)
(***************************************************************************)
\* C20: within one window of a key at most the limit of guarded operations is
\* begun; a request made when the window's limit is used up is rejected, begins
\* no operation and leaves the window as it is; and the reset time returned by
\* a check is never below the one the previous check in the same window
\* returned.
C20_ExceededWindowRejects ==
  [][\A key \in RateKeys :
       /\ granted'[key] <= LimitOf(key)
       /\ (InWindow(key) /\ granted[key] >= LimitOf(key) /\ RateLimitedRequest(key))
            => /\ ~lastCheck'[key].allowed
               /\ granted' = granted
               /\ rateLimitTracking' = rateLimitTracking
       /\ (InWindow(key) /\ RateLimitedRequest(key))
            => lastCheck'[key].resetTime >= lastCheck[key].resetTime]_vars

\* both keys have used up their windows and the last request of each was
\* rejected with the window's reset time
C20_BothWindowsExceeded ==
  \A key \in RateKeys :
    /\ InWindow(key)
    /\ granted[key] = LimitOf(key)
    /\ ~lastCheck[key].allowed
    /\ lastCheck[key].resetTime = rateLimitTracking[key].resetTime

\* C21: once the refreshes of the running one-hour window are used up, no path
\* begins a further token refresh in that window (at most 30 refreshes per
\* window, whatever begins them).
C21_NoRefreshBeyondLimit ==
  [][(InWindow("refresh:A") /\ granted["refresh:A"] >= RefreshesPerHour)
       => nRefresh' = nRefresh]_vars

\* the window's 30 refreshes are used up and a further one is on its way
C21_RefreshBeyondLimit ==
  /\ InWindow("refresh:A")
  /\ granted["refresh:A"] = RefreshesPerHour
  /\ ~lastCheck["refresh:A"].allowed
  /\ ops # {}

(***************************************************************************)
(* Properties of the fetch wrapper                                         *)
(***************************************************************************)
\* C22: a request that has returned after a 401 on its first attempt has
\* attempted exactly one token refresh and was sent exactly twice, the second
\* time with the access token that refresh produced.
C22_OneRefreshOneRetry ==
  (req.pc = "done" /\ req.got # <<>> /\ req.got[1] = 401)
    => /\ req.refreshes = 1
       /\ Len(req.sent) = 2
       /\ req.new # 0
       /\ req.sent[2] = req.new

\* a request that met a 401 and was retried has refreshed the token twice
C22_TwoRefreshesForOneRequest ==
  /\ req.pc = "done"
  /\ req.got[1] = 401
  /\ Len(req.sent) = 2
  /\ req.refreshes = 2

(***************************************************************************)
(* Properties of the authorization flow                                    *)
(***************************************************************************)
\* C23: a code is exchanged, and a token saved, only by a flow whose redirect
\* carried the state that flow generated; and a redirect that reaches a waiting
\* flow with an error, without a code, or with a missing, foreign or earlier
\* flow's state makes the flow fail, begins no exchange and saves no token.
C23_ExchangeOnlyForOwnState ==
  [][/\ \A e \in flow'.exchanges : e.state = e.flow
     /\ \A t \in flow'.saved :
          /\ [flow |-> t.flow, state |-> t.flow] \in flow'.exchanges
          /\ flow'.flows[t.flow].server = t.server
     /\ \A f \in FlowIds, r \in Redirects, closedFirst \in BOOLEAN :
          (/\ Redirect(f, r, closedFirst)
           /\ flow.flows[f].st = "await"
           /\ (r.error \/ r.code = 0 \/ r.state # f))
            => /\ flow'.flows[f].st = "failed"
               /\ flow'.exchanges = flow.exchanges
               /\ flow'.saved = flow.saved]_vars

\* the first flow failed on a redirect that carried a foreign state, and the
\* second, turned down a redirect with the first flow's state, was started
\* again by nothing: the token that is saved comes from a flow whose redirect
\* had the flow's own state
C23_MismatchFailedMatchSaved ==
  /\ flow.flows[1].st = "failed"
  /\ ~flow.flows[1].got.error /\ flow.flows[1].got.code # 0
  /\ flow.flows[1].got.state \notin {0, 1}
  /\ flow.flows[2].st = "done"
  /\ flow.flows[2].got.state = 2
  /\ flow.saved = {[server |-> flow.flows[2].server, flow |-> 2]}

(***************************************************************************)
(* Properties of the bulk operations and of discovery                      *)
(***************************************************************************)
\* C24: an enable-all, disable-all or reset of server s changes or deletes the
\* rows of one scope of s only: there is a scope (a client, or the global one)
\* outside of which every row is after the operation what it was before it.
C24_BulkTouchesOneScope ==
  [][\A s \in PrefServers :
       (EnableAllTools(s) \/ DisableAllTools(s) \/ ResetToolPreferences(s))
         => \E c \in ClientIds \cup {NULL} :
              {r \in rows : ~(r.serverId = s /\ r.clientId = c)}
                = {r \in rows' : ~(r.serverId = s /\ r.clientId = c)}]_vars

\* after two disabled rows were stored, one global and one of client c, every
\* row of the server is enabled
C24_BothScopesEnabled ==
  /\ nOps = MaxOps
  /\ \E r \in rows : r.serverId = "A" /\ r.clientId = NULL /\ r.enabled
  /\ \E r \in rows : r.serverId = "A" /\ r.clientId = "c" /\ r.enabled
  /\ \A r \in rows : r.enabled /\ ~Truthy(r.customName)

\* C25: discovery of a tool that has a global row whose originalDescription
\* is not the announced description leaves the row's enabled, customName and
\* customDescription as they were, and stores the announced description if
\* there is one.
C25_InitKeepsCustomisation ==
  [][\A s \in PrefServers, tools \in AnnouncedLists :
       DiscoverTools(s, tools)
         => \A i \in 1..Len(tools) :
              LET r == GetRow(rows, s, tools[i].name, NULL)
                  q == GetRow(rows', s, tools[i].name, NULL)
              IN (r # NoRow /\ r.originalDescription # tools[i].description)
                   => /\ q # NoRow
                      /\ q.enabled = r.enabled
                      /\ q.customName = r.customName
                      /\ q.customDescription = r.customDescription
                      /\ Truthy(tools[i].description)
                           => q.originalDescription = tools[i].description]_vars

\* a customised global row of t1 has been through two discoveries that
\* announced t1 with different descriptions, and holds the second
C25_CustomisedRowRedescribed ==
  /\ nOps = MaxOps
  /\ \E r \in rows :
       /\ r.serverId = "A" /\ r.toolName = "t1" /\ r.clientId = NULL
       /\ r.customName = "alpha" /\ r.customDescription = "adesc"
       /\ r.originalDescription = "d2"

\* C26: when a discovery of server s has completed, every preference row of s,
\* global or of a client, is for a tool name announced in that discovery.
C26_DiscoveryRemovesUnannounced ==
  [][\A s \in PrefServers, tools \in AnnouncedLists :
       DiscoverTools(s, tools)
         => \A r \in rows' : r.serverId = s => r.toolName \in ToolNamesOf(tools)]_vars

\* after a discovery that announced t1 and t3 a row of client c for t2 is left
C26_ClientRowOfUnannouncedTool ==
  /\ \E r \in rows : r.serverId = "A" /\ r.toolName = "t2" /\ r.clientId = "c"
  /\ \A r \in rows : r.serverId = "A" /\ r.clientId = NULL
                       => r.toolName \in {"t1", "t3"} /\ r.originalDescription # NULL
  /\ \E r \in rows : r.toolName = "t1" /\ r.originalDescription = "d2"

(***************************************************************************)
(* Properties of key rotation                                              *)
(***************************************************************************)
\* C27: a rotation either installs a new key, leaves every token row readable
\* under it with the values it had, and increases the key version by one, or
\* leaves the rows, the key and the version as they were; and no step
\* decreases the key version.
C27_RotationAllOrNothing ==
  [][/\ keys'.keyVersion >= keys.keyVersion
     /\ RotateEncryptionKeys
          => \/ /\ keys'.keyVersion = keys.keyVersion + 1
                /\ keys'.keyFile # keys.keyFile
                /\ \A sv \in ServerIds :
                     /\ keys'.rows[sv].present = keys.rows[sv].present
                     /\ mapRowToToken(keys'.keyFile, sv, keys'.rows[sv])
                          = mapRowToToken(keys.keyFile, sv, keys.rows[sv])
             \/ /\ keys'.keyVersion = keys.keyVersion
                /\ keys'.keyFile = keys.keyFile
                /\ keys'.rows = keys.rows]_vars

\* the version has gone up with every rotation while the key file, and the key
\* the stored rows are sealed under, is the first one
C27_VersionUpSameKey ==
  /\ keys.keyVersion = 1 + MaxRotations
  /\ keys.outcome = "rotated"
  /\ keys.keyFile = 1
  /\ \A sv \in ServerIds : keys.rows[sv].present
                             /\ keys.rows[sv].refresh_token = Value(<<1>>, "rt")

(***************************************************************************)
(* Properties of backup and restore                                        *)
(***************************************************************************)
\* C28: a backup with tokens, made under a passphrase, is created for every
\* dataset; restored into an empty store with that passphrase it gives a store
\* whose configurations and tokens read back as those of the dataset it was
\* made of; with another passphrase the restore is rejected and the store is
\* as before.
C28_BackupRestoreIdentity ==
  [][/\ \A password \in Passwords \ {""} :
          CreateBackup(TRUE, TRUE, password, "oauth-backup.json")
            => /\ bk'.outcome = "created"
               /\ bk'.file.source = bk.store
     /\ \A password \in Passwords \ {""}, overwrite \in BOOLEAN :
          (/\ RestoreBackup(password, overwrite)
           /\ bk.file.password # ""
           /\ bk.store = EmptyStore)
            => IF password = bk.file.password
                 THEN /\ bk'.outcome = "restored"
                      /\ ReadBack(bk'.store) = ReadBack(bk.file.source)
                 ELSE /\ bk'.outcome = "rejected"
                      /\ bk'.store = bk.store]_vars

\* a backup under a passphrase was asked for a store that holds a token, and
\* failed
C28_BackupOfTokenFailed ==
  /\ bk.outcome = "backup failed"
  /\ bk.store.tokens["A"].present
  /\ bk.store.configs["A"].present
  /\ ~bk.file.present

\* C29: the automatic backups on the disk are the (at most) seven most
\* recent automatic backups made, and every backup the user asked for is
\* still on the disk.
C29_PruningKeepsManual ==
  LET ids == 1..Len(bk.made)
      automatic == {id \in ids : ~bk.made[id]}
  IN /\ \A id \in ids : bk.made[id] => id \in bk.disk
     /\ automatic \cap bk.disk =
          {id \in automatic :
             Cardinality({other \in automatic : other > id}) < KeepCount}

\* an export of the configurations was pruned by the seventh automatic
\* backup after it
C29_ManualBackupPruned ==
  /\ Len(bk.made) = MaxBackups
  /\ bk.made[1]
  /\ 1 \notin bk.disk
  /\ \A id \in 2..MaxBackups : ~bk.made[id] /\ id \in bk.disk

(***************************************************************************)
(* Properties of the migration                                             *)
(***************************************************************************)
\* C30: migrate(), called in the initial migration state (version 1.0.0,
\* nothing applied), ends successfully at version 2.0.0 with five applied
\* migrations, recorded in the order of the migration list.
C30_MigrateReachesCurrent ==
  [][(/\ Migrate("")
      /\ mig.currentVersion = "1.0.0"
      /\ mig.appliedMigrations = <<>>)
       => /\ mig'.success
          /\ mig'.currentVersion = "2.0.0"
          /\ Len(mig'.appliedMigrations) = 5
          /\ \A i, j \in 1..Len(mig'.appliedMigrations) :
               i < j => findIndex(mig'.appliedMigrations[i])
                          < findIndex(mig'.appliedMigrations[j])]_vars

\* migrate() from the initial state has ended successfully at 2.0.0 with
\* three applied migrations
C30_ThreeApplied ==
  /\ mig.success
  /\ mig.runs = 1
  /\ mig.currentVersion = "2.0.0"
  /\ mig.appliedMigrations = <<"1.1.0", "1.2.0", "2.0.0">>


\* C31: when rollback(1.1.0) directly follows a migrate() that reached
\* 2.0.0, it succeeds, the version is 1.1.0 and the applied migrations are
\* those up to 1.1.0; and a migrate() directly after it succeeds, reaches
\* 2.0.0 and leaves the dataset that the first migrate() left.
C31_RollbackThenMigrateAgain ==
  \A i \in 1..(Len(mig.log) - 1) :
    LET first == mig.log[i]
        back == mig.log[i + 1]
    IN (/\ first.op = "migrate" /\ first.target = "" /\ first.success
        /\ first.currentVersion = "2.0.0"
        /\ back.op = "rollback" /\ back.target = "1.1.0"
        /\ back.before = first.after)
         => /\ back.success
            /\ back.currentVersion = "1.1.0"
            /\ back.appliedMigrations =
                 SelectSeq(first.appliedMigrations,
                           LAMBDA v : findIndex(v) <= findIndex("1.1.0"))
            /\ (/\ i + 2 <= Len(mig.log)
                /\ mig.log[i + 2].op = "migrate" /\ mig.log[i + 2].target = ""
                /\ mig.log[i + 2].before = back.after)
                 => /\ mig.log[i + 2].success
                    /\ mig.log[i + 2].currentVersion = "2.0.0"
                    /\ ReadBack(mig.log[i + 2].after) = ReadBack(first.after)

\* migrate(), rollback(1.1.0) and migrate() have succeeded one after the
\* other on a configuration with an audience, and the audience is gone
C31_AudienceLost ==
  /\ Len(mig.log) = 3
  /\ \A i \in 1..3 : mig.log[i].success
  /\ mig.log[1].op = "migrate" /\ mig.log[2].op = "rollback" /\ mig.log[3].op = "migrate"
  /\ mig.log[2].target = "1.1.0"
  /\ mig.log[2].before = mig.log[1].after /\ mig.log[3].before = mig.log[2].after
  /\ mig.currentVersion = "2.0.0"
  /\ ReadBack(mig.log[1].after).configs["A"].audience = "aud"
  /\ ReadBack(mig.log[3].after).configs["A"].audience = ""


\* C32: when a migrate call has applied one migration that has a reverse and
\* a rollback to the version before it directly follows, the dataset reads
\* back as it did before that migrate call; and a migrate() call at the
\* current version with nothing pending leaves the dataset, the version and
\* the applied migrations as they were.
C32_ForwardThenReverseRestores ==
  /\ \A i \in 1..(Len(mig.log) - 1) :
       LET forward == mig.log[i]
           back == mig.log[i + 1]
       IN (/\ forward.op = "migrate" /\ forward.success
           /\ Len(forward.appliedMigrations) = Len(forward.fromApplied) + 1
           /\ migrations[findIndex(forward.currentVersion)].rollback
           /\ back.op = "rollback" /\ back.target = forward.fromVersion
           /\ back.before = forward.after)
            => ReadBack(back.after) = ReadBack(forward.before)
  /\ \A i \in 1..Len(mig.log) :
       (/\ mig.log[i].op = "migrate" /\ mig.log[i].target = ""
        /\ mig.log[i].fromVersion = currentVersion)
         => /\ ReadBack(mig.log[i].after) = ReadBack(mig.log[i].before)
            /\ mig.log[i].currentVersion = mig.log[i].fromVersion
            /\ mig.log[i].appliedMigrations = mig.log[i].fromApplied

\* migration 1.2.0 alone was applied to a configuration with an audience and
\* rolled back to 1.1.0, and the audience is gone
C32_ReverseDroppedAudience ==
  /\ Len(mig.log) = 3
  /\ mig.log[2].op = "migrate" /\ mig.log[2].success
  /\ mig.log[2].fromVersion = "1.1.0" /\ mig.log[2].currentVersion = "1.2.0"
  /\ mig.log[3].op = "rollback" /\ mig.log[3].success /\ mig.log[3].target = "1.1.0"
  /\ mig.log[3].before = mig.log[2].after
  /\ ReadBack(mig.log[2].before).configs["A"].audience = "aud"
  /\ ReadBack(mig.log[3].after).configs["A"].audience = ""


\* C39: a migrate call in which a migration step has failed leaves the
\* recorded version, the applied migrations and the stored dataset as they
\* were before the call.
C39_FailedMigrateLeavesAllAsBefore ==
  \A i \in 1..Len(mig.log) :
    mig.log[i].op = "migrate failed"
      => /\ mig.log[i].currentVersion = mig.log[i].fromVersion
         /\ mig.log[i].appliedMigrations = mig.log[i].fromApplied
         /\ ReadBack(mig.log[i].after) = ReadBack(mig.log[i].before)

\* the step to 2.0.0 has failed in the first migrate(), and the recorded
\* version is 1.2.0 over a dataset that was never saved
C39_VersionAheadOfData ==
  /\ Len(mig.log) = 1
  /\ mig.log[1].op = "migrate failed"
  /\ mig.log[1].fromVersion = "1.0.0"
  /\ mig.currentVersion = "1.2.0"
  /\ mig.appliedMigrations = <<"1.1.0", "1.2.0">>
  /\ bk.store.configs["A"].present
  /\ bk.store = mig.log[1].before

(***************************************************************************)
(* Authorization state rows, the loopback listener and the window          *)
(***************************************************************************)

\* an authorization that has ended: token saved, or failed by provider error,
\* closed window, timeout or failed exchange
Ended(f) == flow.flows[f].st \in {"done", "failed"}

\* C33: the auth-state row of an authorization is deleted, in the table and in
\* memory, once the authorization has ended, and no auth-state row exists more
\* than one hour after its creation
C33_AuthStateRowsDeleted ==
  /\ \A f \in FlowIds :
       Ended(f) => \A s \in flow.authStates \cup flow.authStateMap : s.state # f
  /\ \A s \in flow.authStates \cup flow.authStateMap : now - s.createdAt <= HourMs

\* the row of an authorization that saved its token is in the table more
\* than an hour after it was written
C33_RowOutlivesHour ==
  \E s \in flow.authStates :
    flow.flows[s.state].st = "done" /\ now - s.createdAt > HourMs

\* C35: an authorization started while the loopback port is bound ends in
\* failure, and its window is never opened
C35_BoundPortFailsAuthorize ==
  \A f \in FlowIds :
    /\ (flow.flows[f].st = "listen") ~> (flow.flows[f].st = "failed")
    /\ [](flow.flows[f].st = "listen" => f \notin flow.open)

\* an authorization waits for the "listening" event of a server that could
\* not bind the port held by the server of an earlier authorization
C35_HungOnBoundPort ==
  \E f \in FlowIds :
    /\ flow.flows[f].st = "listen"
    /\ flow.bound \notin {0, f}
    /\ flow.localServer = f

\* C34: once an authorization has ended, by completion, provider error,
\* cancellation or timeout, the listener it bound to the loopback port is
\* closed and its window is closed, so that no listener stays bound between
\* authorizations
C34_ListenerAndWindowEndWithFlow ==
  \A f \in FlowIds : Ended(f) => flow.bound # f /\ f \notin flow.open

\* an authorization has ended and the server it bound still holds the port,
\* while this.localServer no longer refers to any server
C34_ListenerOutlivesFlow ==
  \E f \in FlowIds : Ended(f) /\ flow.bound = f /\ flow.localServer = 0

\* C40: a step of one authorization, its redirect, the closing of its window,
\* its timeout or the end of its code exchange with the cleanup that follows,
\* closes neither the window nor the listener of another authorization and
\* leaves the other authorization's outcome as it was
C40_FlowsDoNotInterfere ==
  [][\A f, g \in FlowIds :
       (/\ f # g
        /\ \/ \E r \in Redirects, closedFirst \in BOOLEAN : Redirect(f, r, closedFirst)
           \/ WindowClosed(f)
           \/ AuthTimeout(f)
           \/ \E ok \in BOOLEAN : ExchangeCodeForToken(f, ok))
         => /\ g \in flow.open => g \in flow'.open
            /\ flow.bound = g => flow'.bound = g
            /\ flow'.flows[g] = flow.flows[g]]_vars

\* the first authorization saved its token and the second has failed though
\* no redirect, closing or timeout of its own reached it
C40_FailedByOthersCleanup ==
  /\ flow.flows[1].st = "done"
  /\ flow.flows[2].st = "failed"
  /\ flow.flows[2].by = "none"
  /\ 2 \notin flow.open


(***************************************************************************)
(* Properties of the audit log                                             *)
(***************************************************************************)
\* C37: after n events have been logged the array auditLogs holds exactly the
\* most recent min(n, 10000) of them, in the order they were logged
C37_RingHoldsLastTenThousand ==
  audit.constructed =>
    /\ audit.last = audit.file
    /\ Length(audit) = IF audit.file < RingLimit THEN audit.file ELSE RingLimit

\* the 10001st event of a new installation has been logged and the array
\* holds 5000 entries
C37_HalfDropped ==
  /\ audit.constructed
  /\ audit.file = RingLimit + 1
  /\ Length(audit) = KeepAfterTrim


(***************************************************************************)
(* The list-tools filter against the call gate                             *)
(***************************************************************************)
\* C38: for every server, client scope and upstream tool, the tool is in the
\* list that filterTools returns if and only if isToolEnabled answers true
\* for it
C38_FilterAgreesWithGate ==
  \A s \in PrefServers, c \in Scopes :
    \A i \in 1..Len(Upstream(s)) :
      filterToolsUnfiltered(rows, Upstream(s), s, c)[i].enabled
        = isToolEnabled(rows, cache, s, Upstream(s)[i].name, c)

\* the gate lets a call of t1 through for a scope whose tool list has no t1:
\* the cache holds an enabled row of t1, the store a disabled one
C38_GateOpenListWithout ==
  \E c \in Scopes :
    /\ isToolEnabled(rows, cache, "A", "t1", c)
    /\ \A i \in 1..Len(filterTools(rows, Upstream("A"), "A", c)) :
         filterTools(rows, Upstream("A"), "A", c)[i].name # "t1"
    /\ \E r \in rows : r.toolName = "t1" /\ ~r.enabled


(***************************************************************************)
(* Secrets in the files of backup and migration                            *)
(***************************************************************************)
\* a secret value as the user entered it or the provider issued it
Plaintext(x) ==
  x.layers = <<>> /\ x.text \notin {"", "[REDACTED]", Thrown.text}

\* the records of a dataset hold no secret in plaintext
Sealed(cfgs, toks) ==
  /\ \A i \in 1..Len(cfgs) : ~Plaintext(cfgs[i].clientSecret)
  /\ \A i \in 1..Len(toks) :
       ~Plaintext(toks[i].accessToken) /\ ~Plaintext(toks[i].refreshToken)

\* C36: no file holds a secret in plaintext: a backup file that is not
\* encrypted with a password holds no plaintext client secret or token, and
\* neither do the snapshots of the rollback history that saveMigrationState
\* writes to the migration state file
C36_NoPlaintextSecretInFiles ==
  /\ (bk.file.present /\ bk.file.password = "")
       => Sealed(bk.file.configs, bk.file.tokens)
  /\ \A j \in 1..Len(mig.rollbackHistory) :
       Sealed(mig.rollbackHistory[j].data.configs, mig.rollbackHistory[j].data.tokens)

\* a migration has succeeded, and both the backup written before it, which
\* has no password, and a snapshot of the saved rollback history hold the
\* client secret as it was entered
C36_SecretInBackupAndStateFile ==
  /\ mig.success
  /\ bk.file.present /\ bk.file.password = ""
  /\ \E i \in 1..Len(bk.file.configs) : Plaintext(bk.file.configs[i].clientSecret)
  /\ \E j \in 1..Len(mig.rollbackHistory) :
       \E i \in 1..Len(mig.rollbackHistory[j].data.configs) :
         Plaintext(mig.rollbackHistory[j].data.configs[i].clientSecret)

====
